---------------------------- MODULE Spec2Model ----------------------------
(***************************************************************************)
(* A model of the RISC-V random instruction generator: the instruction     *)
(* encoder and the ISA catalog with its weighted selection                 *)
(* (riscv_isa.py), and the mixed pattern generator (patterns.py).          *)
(*                                                                         *)
(* Python integers are unbounded.  They are modelled as two's-complement   *)
(* bit vectors of PyBits bits, wider than the 32-bit instruction word, so  *)
(* that a value that leaves the 32-bit range (a negative result, a bit     *)
(* above bit 31) is visible in the model.                                  *)
(***************************************************************************)
EXTENDS Integers, Sequences, FiniteSets, TLC

VARIABLES
    call,       \* one call of Instruction.encode: its arguments and its result
    weights,    \* RISCVISA.weights: instruction name -> weight
    isa_pc,     \* "new" before RISCVISA.__init__ has run, "ready" after, "failed" if it raised
    isa_ret,    \* what the last RISCVISA operation returned or raised
    nops,       \* number of calls made on the RISCVISA object so far (bounded by MaxOps)
    mix,        \* one call of PatternGenerator.generate_mixed_patterns: its locals
    pat,        \* one call of a pattern builder on a configured ISA: its result
    sem,        \* the SemanticState attached to a PatternGenerator
    pg,         \* that PatternGenerator: instr_idx, and the call it is executing
    loops,      \* the last enter_loop / exit_loop call made on a SemanticState
    det,        \* two sessions of RISCVISA.generate_random fed by one stream of draws
    seq,        \* one call of SequencePatternGenerator.generate_sequence: its locals
    regs,       \* a RISCVISA built with register ranges, and the last call made on it
    stepc,      \* one call of SequenceStep.generate: the step, the context, the result
    blk,        \* one call of PatternGenerator.generate_basic_block: its locals
    note        \* the last call of CommentGenerator.generate: what it was given and read

\* The encoder, the ISA catalog and the mixed-pattern loop.
isaVars == <<call, weights, isa_pc, isa_ret, nops, mix>>

\* The pattern builders, the semantic state and the sequence interpreter.
genVars == <<pat, sem, pg, loops, det, seq, regs, stepc, blk, note>>

\* The loop-nesting calls, the paired sessions, the sequence generator, the
\* register ranges, the step interpreter, the basic block and the comments.
runVars == <<loops, det, seq, regs, stepc, blk, note>>

tailVars == <<regs, stepc, blk, note>>

vars == <<call, weights, isa_pc, isa_ret, nops, mix, pat, sem, pg, loops, det, seq,
          regs, stepc, blk, note>>

PatOff == pat = [pc |-> "off"]

SemOff == sem = [pc |-> "off"] /\ pg = [pc |-> "off"]

LoopsOff == loops = [pc |-> "off"]

DetOff == det = [pc |-> "off"]

SeqOff == seq = [pc |-> "off"]

RegsOff == regs = [pc |-> "off"]

StepOff == stepc = [pc |-> "off"]

BlkOff == blk = [pc |-> "off"]

NoteOff == note = [pc |-> "off"]

TailOff == RegsOff /\ StepOff /\ BlkOff /\ NoteOff

RunOff == LoopsOff /\ DetOff /\ SeqOff /\ TailOff

\* No pattern builder is being called and no generator exists.
GenOff == PatOff /\ SemOff /\ RunOff

---------------------------------------------------------------------------
(* Bounds of the model *)

PyBits == 40
MaxOps == 3
MaxCount == 7
MaxSpan == 6
MaxInstr == 2

---------------------------------------------------------------------------
(* Python integers as bit vectors *)

Bits == 0 .. (PyBits - 1)

\* The two's-complement bits of the integer x, for |x| < 2^31.
ToBits(x) ==
    [i \in Bits |-> IF i <= 30 THEN (x \div (2 ^ i)) % 2
                    ELSE IF x < 0 THEN 1 ELSE 0]

\* Python's a & b
BitAnd(a, b) == [i \in Bits |-> a[i] * b[i]]

\* Python's a | b
BitOr(a, b) == [i \in Bits |-> IF a[i] = 1 \/ b[i] = 1 THEN 1 ELSE 0]

\* Python's a << k
Shl(a, k) == [i \in Bits |-> IF i >= k THEN a[i - k] ELSE 0]

\* Python's a >> k (arithmetic: the sign is kept)
Shr(a, k) == [i \in Bits |-> IF i + k < PyBits THEN a[i + k] ELSE a[PyBits - 1]]

\* The unsigned number held in the n bits of w that start at bit lo.
RECURSIVE FieldVal(_, _, _)
FieldVal(w, lo, n) ==
    IF n = 0 THEN 0 ELSE w[lo] + 2 * FieldVal(w, lo + 1, n - 1)

\* Bits hi..lo of the word w, as a number (hi - lo < 31).
Field(w, hi, lo) == FieldVal(w, lo, hi - lo + 1)

\* 0 <= w < 2^32
IsWord32(w) == \A i \in Bits : i >= 32 => w[i] = 0

---------------------------------------------------------------------------
(* The instruction catalog *)

\* Optional[int] = None for funct3 / funct7
NoneInt == -1

Formats == {"R", "I", "S", "B", "U", "J"}

Instr(name, fmt, opcode, funct3, funct7, imm_gen) ==
    [name |-> name, format |-> fmt, opcode |-> opcode,
     funct3 |-> funct3, funct7 |-> funct7, imm_gen |-> imm_gen]

\* RISCVISA._load_instructions: the catalog, in the order it is built.
Instructions ==
    << Instr("add",  "R", 51, 0, 0,  "none"),
       Instr("sub",  "R", 51, 0, 32, "none"),
       Instr("xor",  "R", 51, 4, 0,  "none"),
       Instr("or",   "R", 51, 6, 0,  "none"),
       Instr("and",  "R", 51, 7, 0,  "none"),
       Instr("sll",  "R", 51, 1, 0,  "none"),
       Instr("srl",  "R", 51, 5, 0,  "none"),
       Instr("sra",  "R", 51, 5, 32, "none"),
       Instr("slt",  "R", 51, 2, 0,  "none"),
       Instr("sltu", "R", 51, 3, 0,  "none"),
       Instr("addi",  "I", 19, 0, NoneInt, "imm_12bit"),
       Instr("xori",  "I", 19, 4, NoneInt, "imm_12bit"),
       Instr("ori",   "I", 19, 6, NoneInt, "imm_12bit"),
       Instr("andi",  "I", 19, 7, NoneInt, "imm_12bit"),
       Instr("slli",  "I", 19, 1, NoneInt, "imm_5bit"),
       Instr("srli",  "I", 19, 5, 0,       "imm_5bit"),
       Instr("srai",  "I", 19, 5, 32,      "imm_5bit"),
       Instr("slti",  "I", 19, 2, NoneInt, "imm_12bit"),
       Instr("sltiu", "I", 19, 3, NoneInt, "imm_12bit"),
       Instr("lb",    "I", 3,  0, NoneInt, "imm_load_store"),
       Instr("lh",    "I", 3,  1, NoneInt, "imm_load_store"),
       Instr("lw",    "I", 3,  2, NoneInt, "imm_load_store"),
       Instr("lbu",   "I", 3,  4, NoneInt, "imm_load_store"),
       Instr("lhu",   "I", 3,  5, NoneInt, "imm_load_store"),
       Instr("jalr",  "I", 103, 0, NoneInt, "imm_12bit"),
       Instr("sb", "S", 35, 0, NoneInt, "imm_load_store"),
       Instr("sh", "S", 35, 1, NoneInt, "imm_load_store"),
       Instr("sw", "S", 35, 2, NoneInt, "imm_load_store"),
       Instr("beq",  "B", 99, 0, NoneInt, "imm_branch"),
       Instr("bne",  "B", 99, 1, NoneInt, "imm_branch"),
       Instr("blt",  "B", 99, 4, NoneInt, "imm_branch"),
       Instr("bge",  "B", 99, 5, NoneInt, "imm_branch"),
       Instr("bltu", "B", 99, 6, NoneInt, "imm_branch"),
       Instr("bgeu", "B", 99, 7, NoneInt, "imm_branch"),
       Instr("lui",   "U", 55, NoneInt, NoneInt, "imm_20bit"),
       Instr("auipc", "U", 23, NoneInt, NoneInt, "imm_20bit"),
       Instr("jal", "J", 111, NoneInt, NoneInt, "imm_jump"),
       Instr("ecall",  "I", 115, 0, NoneInt, "none"),
       Instr("ebreak", "I", 115, 0, 1,       "none") >>

InstrIdx == 1 .. Len(Instructions)

InstrSet == {Instructions[i] : i \in InstrIdx}

Names == {Instructions[i].name : i \in InstrIdx}

\* The definition called name.
ByName(name) == CHOOSE d \in InstrSet : d.name = name

---------------------------------------------------------------------------
(* Instruction.encode *)

\* x & mask for an Optional[int] field: None & mask raises TypeError.
Raised == [ok |-> FALSE, word |-> ToBits(0)]

Returned(w) == [ok |-> TRUE, word |-> w]

\* (field & mask) << sh
Masked(x, mask, sh) == Shl(BitAnd(ToBits(x), ToBits(mask)), sh)

EncodeR(d, rd, rs1, rs2) ==
    IF d.funct7 = NoneInt \/ d.funct3 = NoneInt THEN Raised
    ELSE Returned(
        BitOr(BitOr(BitOr(BitOr(BitOr(
            Masked(d.funct7, 127, 25),
            Masked(rs2, 31, 20)),
            Masked(rs1, 31, 15)),
            Masked(d.funct3, 7, 12)),
            Masked(rd, 31, 7)),
            BitAnd(ToBits(d.opcode), ToBits(127))))

\* EncodeI with the immediate shifted into place without its 12-bit mask.
EncodeI_Unmasked(d, rd, rs1, imm) ==
    IF d.funct3 = NoneInt THEN Raised
    ELSE Returned(
            BitOr(BitOr(BitOr(BitOr(
                Shl(ToBits(imm), 20),
                Masked(rs1, 31, 15)),
                Masked(d.funct3, 7, 12)),
                Masked(rd, 31, 7)),
                BitAnd(ToBits(d.opcode), ToBits(127))))

EncodeI(d, rd, rs1, imm) ==
    IF d.funct3 = NoneInt THEN Raised
    ELSE LET imm12 == BitAnd(ToBits(imm), ToBits(4095))
         IN Returned(
               BitOr(BitOr(BitOr(BitOr(
                   Shl(BitAnd(imm12, ToBits(4095)), 20),
                   Masked(rs1, 31, 15)),
                   Masked(d.funct3, 7, 12)),
                   Masked(rd, 31, 7)),
                   BitAnd(ToBits(d.opcode), ToBits(127))))

\* EncodeS with the two halves of the immediate in each other's place.
EncodeS_Swapped(d, rs1, rs2, imm) ==
    IF d.funct3 = NoneInt THEN Raised
    ELSE LET imm11_5 == BitAnd(Shr(ToBits(imm), 5), ToBits(127))
             imm4_0  == BitAnd(ToBits(imm), ToBits(31))
         IN Returned(
               BitOr(BitOr(BitOr(BitOr(BitOr(
                   Shl(BitAnd(imm4_0, ToBits(31)), 25),
                   Masked(rs2, 31, 20)),
                   Masked(rs1, 31, 15)),
                   Masked(d.funct3, 7, 12)),
                   Shl(BitAnd(imm11_5, ToBits(31)), 7)),
                   BitAnd(ToBits(d.opcode), ToBits(127))))

EncodeS(d, rs1, rs2, imm) ==
    IF d.funct3 = NoneInt THEN Raised
    ELSE LET imm11_5 == BitAnd(Shr(ToBits(imm), 5), ToBits(127))
             imm4_0  == BitAnd(ToBits(imm), ToBits(31))
         IN Returned(
               BitOr(BitOr(BitOr(BitOr(BitOr(
                   Shl(BitAnd(imm11_5, ToBits(127)), 25),
                   Masked(rs2, 31, 20)),
                   Masked(rs1, 31, 15)),
                   Masked(d.funct3, 7, 12)),
                   Shl(BitAnd(imm4_0, ToBits(31)), 7)),
                   BitAnd(ToBits(d.opcode), ToBits(127))))

EncodeB(d, rs1, rs2, imm) ==
    IF d.funct3 = NoneInt THEN Raised
    ELSE LET imm12   == BitAnd(Shr(ToBits(imm), 12), ToBits(1))
             imm10_5 == BitAnd(Shr(ToBits(imm), 5), ToBits(63))
             imm4_1  == BitAnd(Shr(ToBits(imm), 1), ToBits(15))
             imm11   == BitAnd(Shr(ToBits(imm), 11), ToBits(1))
         IN Returned(
               BitOr(BitOr(BitOr(BitOr(BitOr(
                   Shl(BitOr(Shl(imm12, 6), imm10_5), 25),
                   Masked(rs2, 31, 20)),
                   Masked(rs1, 31, 15)),
                   Masked(d.funct3, 7, 12)),
                   Shl(BitOr(Shl(imm4_1, 1), imm11), 7)),
                   BitAnd(ToBits(d.opcode), ToBits(127))))

EncodeU(d, rd, imm) ==
    LET imm31_12 == BitAnd(Shr(ToBits(imm), 12), ToBits(1048575))
    IN Returned(
          BitOr(BitOr(
              Shl(BitAnd(imm31_12, ToBits(1048575)), 12),
              Masked(rd, 31, 7)),
              BitAnd(ToBits(d.opcode), ToBits(127))))

\* JImmEncoded with imm[19:12] above imm[11].
JImmEncoded_HighByteFirst(imm) ==
    LET imm20    == BitAnd(Shr(ToBits(imm), 20), ToBits(1))
        imm10_1  == BitAnd(Shr(ToBits(imm), 1), ToBits(1023))
        imm11    == BitAnd(Shr(ToBits(imm), 11), ToBits(1))
        imm19_12 == BitAnd(Shr(ToBits(imm), 12), ToBits(255))
    IN BitOr(BitOr(BitOr(Shl(imm20, 19), Shl(imm10_1, 9)), Shl(imm19_12, 1)), imm11)

\* The J-type immediate, reordered: imm20 << 19 | imm10_1 << 9 | imm11 << 8 | imm19_12
JImmEncoded(imm) ==
    LET imm20    == BitAnd(Shr(ToBits(imm), 20), ToBits(1))
        imm10_1  == BitAnd(Shr(ToBits(imm), 1), ToBits(1023))
        imm11    == BitAnd(Shr(ToBits(imm), 11), ToBits(1))
        imm19_12 == BitAnd(Shr(ToBits(imm), 12), ToBits(255))
    IN BitOr(BitOr(BitOr(Shl(imm20, 19), Shl(imm10_1, 9)), Shl(imm11, 8)), imm19_12)

EncodeJ(d, rd, imm) ==
    Returned(
        BitOr(BitOr(
            Shl(BitAnd(JImmEncoded(imm), ToBits(1048575)), 12),
            Masked(rd, 31, 7)),
            BitAnd(ToBits(d.opcode), ToBits(127))))

\* Instruction.encode(rd, rs1, rs2, imm) of the definition d.
Encode(d, rd, rs1, rs2, imm) ==
    CASE d.format = "R" -> EncodeR(d, rd, rs1, rs2)
      [] d.format = "I" -> EncodeI(d, rd, rs1, imm)
      [] d.format = "S" -> EncodeS(d, rs1, rs2, imm)
      [] d.format = "B" -> EncodeB(d, rs1, rs2, imm)
      [] d.format = "U" -> EncodeU(d, rd, imm)
      [] d.format = "J" -> EncodeJ(d, rd, imm)
      [] OTHER -> Raised

---------------------------------------------------------------------------
(* The encoder under test: arguments drawn from bounded sets *)

RdInputs  == {-1, 0, 1, 21, 31, 37}
Rs1Inputs == {-3, 0, 2, 10, 31}
Rs2Inputs == {0, 3, 21, 31, 32}

ImmInputs ==
    {0, 1, 3, 68, 291, 2047, 2048, 2730, 4094, 4096, 524287, 699050,
     1048574, 1048576, 1073741824,
     -1, -2, -2048, -2049, -4096, -524288, -1048576}

NoCall == [pc |-> "off"]

\* No RISCVISA operation has returned yet.
NoRet == [op |-> "none", kind |-> "none"]

EncInit ==
    /\ call \in [pc : {"args"}, instr : InstrSet, rd : RdInputs,
                 rs1 : Rs1Inputs, rs2 : Rs2Inputs, imm : ImmInputs,
                 ret : {Raised}]

\* The call instr.encode(rd, rs1, rs2, imm).
EncodeCall ==
    /\ call.pc = "args"
    /\ UNCHANGED <<weights, isa_pc, isa_ret, nops, mix>>
    /\ UNCHANGED genVars
    /\ call' = [call EXCEPT !.pc = "done",
                            !.ret = Encode(call.instr, call.rd, call.rs1, call.rs2, call.imm)]

IsaOff ==
    /\ weights = [n \in {} |-> 0]
    /\ isa_pc = "off"
    /\ isa_ret = NoRet
    /\ nops = 0

MixOff == mix = [pc |-> "off"]

InitEncode == EncInit /\ IsaOff /\ MixOff /\ GenOff

NextEncode == EncodeCall

SpecEncode == InitEncode /\ [][NextEncode]_vars

---------------------------------------------------------------------------
(* Properties of the encoder *)

ValidReg(r) == r \in 0 .. 31

\* The immediate range each format declares (the catalog's generators).
InRange(fmt, imm) ==
    CASE fmt = "I" -> imm \in -2048 .. 2047
      [] fmt = "S" -> imm \in -2048 .. 2047
      [] fmt = "B" -> imm \in -4096 .. 4094 /\ imm % 2 = 0
      [] fmt = "U" -> imm \in -524288 .. 524287
      [] fmt = "J" -> imm \in -1048576 .. 1048574 /\ imm % 2 = 0
      [] OTHER -> TRUE

ValidCall ==
    /\ call.pc = "done"
    /\ ValidReg(call.rd) /\ ValidReg(call.rs1) /\ ValidReg(call.rs2)
    /\ InRange(call.instr.format, call.imm)

\* Bit k of the integer x, read off its value.
NBit(x, k) == IF k <= 30 THEN (x \div (2 ^ k)) % 2 ELSE IF x < 0 THEN 1 ELSE 0

\* The value of a word below 2^31.
WordVal(w) == FieldVal(w, 0, 31)

\* C2: for every definition of the catalog and all integers rd, rs1, rs2, imm
\* (negative and out-of-range ones included) encode returns, never raising,
\* a word w with 0 <= w < 2^32 whose bits [6:0] are the definition's opcode.
Thm_C2_EncodeTotalOpcode ==
    call.pc = "done" =>
        /\ call.ret.ok
        /\ IsWord32(call.ret.word)
        /\ Field(call.ret.word, 6, 0) = call.instr.opcode

\* An out-of-range immediate and an out-of-range register were encoded.
Wit_C2_OutOfRangeEncoded ==
    /\ call.pc = "done"
    /\ call.instr.name = "sw"
    /\ call.rs1 = -3 /\ call.rs2 = 32 /\ call.imm = -2049
    /\ call.ret.ok
    /\ Field(call.ret.word, 6, 0) = 35

\* C3: for every definition and valid in-range operands, a definition that
\* has a funct3 shows it in bits [14:12] and one that has a funct7 shows it in
\* bits [31:25].
Claim_C3_FunctFieldsCarried ==
    ValidCall =>
        /\ call.ret.ok
        /\ (call.instr.funct3 # NoneInt =>
                Field(call.ret.word, 14, 12) = call.instr.funct3)
        /\ (call.instr.funct7 # NoneInt =>
                Field(call.ret.word, 31, 25) = call.instr.funct7)

\* The packing the formats R, I, S, B and U are documented to have, bit by bit.
RefBit(d, rd, rs1, rs2, imm, i) ==
    LET op  == IF i <= 6 THEN NBit(d.opcode, i) ELSE 0
        f3  == IF i \in 12 .. 14 THEN NBit(d.funct3, i - 12) ELSE 0
        f7  == IF i \in 25 .. 31 THEN NBit(d.funct7, i - 25) ELSE 0
        xd  == IF i \in 7 .. 11 THEN NBit(rd, i - 7) ELSE 0
        x1  == IF i \in 15 .. 19 THEN NBit(rs1, i - 15) ELSE 0
        x2  == IF i \in 20 .. 24 THEN NBit(rs2, i - 20) ELSE 0
    IN CASE i >= 32 -> 0
         [] d.format = "R" /\ i < 32 -> op + f3 + f7 + xd + x1 + x2
         [] d.format = "I" /\ i < 32 ->
                op + f3 + xd + x1 + (IF i \in 20 .. 31 THEN NBit(imm, i - 20) ELSE 0)
         [] d.format = "S" /\ i < 32 ->
                op + f3 + x1 + x2
                   + (IF i \in 25 .. 31 THEN NBit(imm, i - 20) ELSE 0)
                   + (IF i \in 7 .. 11 THEN NBit(imm, i - 7) ELSE 0)
         [] d.format = "B" /\ i < 32 ->
                op + f3 + x1 + x2
                   + (IF i = 31 THEN NBit(imm, 12) ELSE 0)
                   + (IF i \in 25 .. 30 THEN NBit(imm, i - 20) ELSE 0)
                   + (IF i \in 8 .. 11 THEN NBit(imm, i - 7) ELSE 0)
                   + (IF i = 7 THEN NBit(imm, 11) ELSE 0)
         [] d.format = "U" /\ i < 32 ->
                op + xd + (IF i \in 12 .. 31 THEN NBit(imm, i) ELSE 0)
         [] OTHER -> 0

RefWord(d, rd, rs1, rs2, imm) == [i \in Bits |-> RefBit(d, rd, rs1, rs2, imm, i)]

\* C4: for the formats R, I, S, B and U, registers in 0..31 and an immediate
\* in the format's range, encode returns the documented packing; add with
\* rd=1, rs1=2, rs2=3 gives 0x003100B3, and sw with rs1=2, rs2=3, imm=0x44
\* has 0b0000010 in bits [31:25] and 0b00100 in bits [11:7].
Thm_C4_ReferencePacking ==
    (ValidCall /\ call.instr.format \in {"R", "I", "S", "B", "U"}) =>
        /\ call.ret.ok
        /\ call.ret.word =
              RefWord(call.instr, call.rd, call.rs1, call.rs2, call.imm)
        /\ (call.instr.name = "add" /\ call.rd = 1 /\ call.rs1 = 2 /\ call.rs2 = 3
               => IsWord32(call.ret.word) /\ call.ret.word[31] = 0
                  /\ WordVal(call.ret.word) = 3211443)
        /\ (call.instr.name = "sw" /\ call.rs1 = 2 /\ call.rs2 = 3 /\ call.imm = 68
               => Field(call.ret.word, 31, 25) = 2 /\ Field(call.ret.word, 11, 7) = 4)

\* sw x3, 0x44(x2) has been encoded.
Wit_C4_SwEncoded ==
    /\ ValidCall
    /\ call.instr.name = "sw" /\ call.rs1 = 2 /\ call.rs2 = 3 /\ call.imm = 68
    /\ call.ret.ok
    /\ Field(call.ret.word, 31, 25) = 2

\* C5: for a format that carries an immediate, a fixed definition and fixed
\* registers, two distinct immediates of the format's range never encode to
\* the same word.
Claim_C5_InRangeLossless ==
    (call.pc = "done" /\ call.instr.format \in {"I", "S", "B", "U", "J"}
                      /\ InRange(call.instr.format, call.imm)) =>
        \A imm2 \in ImmInputs :
            (InRange(call.instr.format, imm2) /\ imm2 # call.imm) =>
                Encode(call.instr, call.rd, call.rs1, call.rs2, imm2).word
                    # call.ret.word

\* C6 as stated: bits [31:12] of a J-type word hold, from bit 31 down,
\* imm[20], imm[10:1], imm[19:12], imm[11].
Claim_C6_OrderAsStated ==
    (ValidCall /\ call.instr.format = "J") =>
        /\ Field(call.ret.word, 31, 31) = NBit(call.imm, 20)
        /\ Field(call.ret.word, 30, 21) = (call.imm \div 2) % 1024
        /\ Field(call.ret.word, 20, 13) = (call.imm \div 4096) % 256
        /\ Field(call.ret.word, 12, 12) = NBit(call.imm, 11)
        /\ Field(call.ret.word, 11, 7) = call.rd
        /\ Field(call.ret.word, 6, 0) = call.instr.opcode

\* C6, amended: bits [31:12] of a J-type word hold, from bit 31 down,
\* imm[20], imm[10:1], imm[11], imm[19:12] (bit 31 = imm[20], bits 30..21 =
\* imm[10:1], bit 20 = imm[11], bits 19..12 = imm[19:12]), with rd in [11:7]
\* and the opcode in [6:0]; every bit of the word is one of these, so bit 0
\* of the offset is not encoded.
Thm_C6_JOrder ==
    (call.pc = "done" /\ call.instr.format = "J" /\ ValidReg(call.rd)) =>
        /\ call.ret.ok
        /\ IsWord32(call.ret.word)
        /\ Field(call.ret.word, 31, 31) = NBit(call.imm, 20)
        /\ Field(call.ret.word, 30, 21) = (call.imm \div 2) % 1024
        /\ Field(call.ret.word, 20, 20) = NBit(call.imm, 11)
        /\ Field(call.ret.word, 19, 12) = (call.imm \div 4096) % 256
        /\ Field(call.ret.word, 11, 7) = call.rd
        /\ Field(call.ret.word, 6, 0) = call.instr.opcode

\* jal with an in-range offset whose bit 11 is set and whose bit 12 is clear.
Wit_C6_JalBit11 ==
    /\ ValidCall
    /\ call.instr.name = "jal" /\ call.imm = 2048 /\ call.rd = 1
    /\ Field(call.ret.word, 20, 20) = 1
    /\ Field(call.ret.word, 12, 12) = 0

---------------------------------------------------------------------------
(* RISCVISA: the weight table and weighted selection *)

\* The weight every instruction gets at construction.
DefaultWeight == 1

\* The names of a list of definitions.
RECURSIVE NamesOf(_)
NamesOf(list) ==
    IF list = <<>> THEN <<>> ELSE <<Head(list).name>> \o NamesOf(Tail(list))

IsFormat(d, fmt) == d.format = fmt

\* RISCVISA.get_instructions_by_format
RECURSIVE FilterFormat(_, _)
FilterFormat(list, fmt) ==
    IF list = <<>> THEN <<>>
    ELSE (IF IsFormat(Head(list), fmt) THEN <<Head(list)>> ELSE <<>>)
            \o FilterFormat(Tail(list), fmt)

GetInstructionsByFormat(fmt) == FilterFormat(Instructions, fmt)

\* itertools.accumulate(ws): the running totals of a list of weights.
RECURSIVE Accumulate(_, _)
Accumulate(ws, sofar) ==
    IF ws = <<>> THEN <<>>
    ELSE <<sofar + Head(ws)>> \o Accumulate(Tail(ws), sofar + Head(ws))

\* bisect.bisect_right(a, x, lo, hi), with Python's indices from 0.
RECURSIVE BisectRight(_, _, _, _)
BisectRight(a, x, lo, hi) ==
    IF lo < hi
    THEN LET mid == (lo + hi) \div 2
         IN IF x < a[mid + 1] THEN BisectRight(a, x, lo, mid)
                              ELSE BisectRight(a, x, mid + 1, hi)
    ELSE lo

\* random.choices(population, weights=ws, k=1)[0] as used by the catalog:
\* the members random.choices can return, or none when it raises ValueError
\* (the total of the weights is not greater than zero).  random() * total
\* lies in [0, total); the weights being whole numbers, its integer part
\* decides every comparison of the bisection.
ChoicesTotal(ws) == IF ws = <<>> THEN 0 ELSE Accumulate(ws, 0)[Len(ws)]

ChoicesPick(population, ws, x) ==
    population[BisectRight(Accumulate(ws, 0), x, 0, Len(population) - 1) + 1]

\* weights = [self.weights[instr.name] for instr in list]
WeightsOf(names, table) == [i \in 1 .. Len(names) |-> table[names[i]]]

CatalogNames == NamesOf(Instructions)

---------------------------------------------------------------------------
(* RISCVISA operations, on inputs drawn from bounded sets *)

\* The weights mapping given to RISCVISA(...): None, or name/weight pairs
\* in the order of the dict.
AllZeroOverride == [i \in InstrIdx |-> <<CatalogNames[i], 0>>]

NoOverride == <<>>

OverrideInputs ==
    { NoOverride,
      << <<"add", 0>>, <<"ebreak", 2>> >>,
      << <<"add", -1>> >>,
      << <<"sw", 0>>, <<"nosuch", 2>> >>,
      AllZeroOverride }

NameInputs == {"add", "ebreak", "unknown_instr"}

WeightInputs == {-1, 0, 2}

ListInputs ==
    { <<>>,
      NamesOf(GetInstructionsByFormat("R")),
      NamesOf(GetInstructionsByFormat("S")),
      <<"ebreak", "sw", "add">> }

\* The loop of __init__ over the override's items: the table after the
\* items, and whether an unknown name was met.
RECURSIVE ApplyOverride(_, _)
ApplyOverride(table, ov) ==
    IF ov = <<>> THEN [ok |-> TRUE, table |-> table]
    ELSE IF Head(ov)[1] \in DOMAIN table
         THEN ApplyOverride([table EXCEPT ![Head(ov)[1]] = Head(ov)[2]], Tail(ov))
         ELSE [ok |-> FALSE, table |-> table]

\* RISCVISA.__init__(weights=ov): the weight table.
New(ov) ==
    /\ isa_pc = "new"
    /\ LET r == ApplyOverride([n \in Names |-> DefaultWeight], ov)
       IN /\ isa_pc' = IF r.ok THEN "ready" ELSE "failed"
          /\ weights' = IF r.ok THEN r.table ELSE weights
          /\ isa_ret' = [op |-> "init", kind |-> IF r.ok THEN "none" ELSE "error"]
    /\ UNCHANGED <<nops, call, mix>>
    /\ UNCHANGED genVars

\* RISCVISA.set_weight_by_name without the check of the weight's sign.
SetWeightByName_NoSignCheck(name, weight) ==
    /\ isa_pc = "ready" /\ nops < MaxOps
    /\ nops' = nops + 1
    /\ UNCHANGED <<isa_pc, call, mix>>
    /\ UNCHANGED genVars
    /\ IF name \notin DOMAIN weights
       THEN /\ weights' = weights
            /\ isa_ret' = [op |-> "set_weight_by_name", name |-> name,
                           weight |-> weight, kind |-> "error"]
       ELSE /\ weights' = [weights EXCEPT ![name] = weight]
            /\ isa_ret' = [op |-> "set_weight_by_name", name |-> name,
                           weight |-> weight, kind |-> "none"]

\* RISCVISA.set_weight_by_name(name, weight)
SetWeightByName(name, weight) ==
    /\ isa_pc = "ready" /\ nops < MaxOps
    /\ nops' = nops + 1
    /\ UNCHANGED <<isa_pc, call, mix>>
    /\ UNCHANGED genVars
    /\ IF name \notin DOMAIN weights \/ weight < 0
       THEN /\ weights' = weights
            /\ isa_ret' = [op |-> "set_weight_by_name", name |-> name,
                           weight |-> weight, kind |-> "error"]
       ELSE /\ weights' = [weights EXCEPT ![name] = weight]
            /\ isa_ret' = [op |-> "set_weight_by_name", name |-> name,
                           weight |-> weight, kind |-> "none"]

\* RISCVISA.set_weight_by_format(fmt, weight)
SetWeightByFormat(fmt, weight) ==
    /\ isa_pc = "ready" /\ nops < MaxOps
    /\ nops' = nops + 1
    /\ UNCHANGED <<isa_pc, call, mix>>
    /\ UNCHANGED genVars
    /\ IF weight < 0
       THEN /\ weights' = weights
            /\ isa_ret' = [op |-> "set_weight_by_format", kind |-> "error"]
       ELSE /\ weights' = [n \in DOMAIN weights |->
                              IF IsFormat(ByName(n), fmt) THEN weight ELSE weights[n]]
            /\ isa_ret' = [op |-> "set_weight_by_format", kind |-> "none"]

\* get_random_instruction drawing from the catalog without its weights.
GetRandomInstruction_Unweighted ==
    /\ isa_pc = "ready" /\ nops < MaxOps
    /\ nops' = nops + 1
    /\ \E i \in InstrIdx :
          isa_ret' = [op |-> "get_random_instruction", kind |-> "instr",
                      name |-> CatalogNames[i]]
    /\ UNCHANGED <<weights, isa_pc, call, mix>>
    /\ UNCHANGED genVars

\* RISCVISA.get_random_instruction()
GetRandomInstruction ==
    /\ isa_pc = "ready" /\ nops < MaxOps
    /\ nops' = nops + 1
    /\ LET ws == WeightsOf(CatalogNames, weights)
       IN IF ChoicesTotal(ws) <= 0
          THEN isa_ret' = [op |-> "get_random_instruction", kind |-> "error"]
          ELSE \E x \in 0 .. (ChoicesTotal(ws) - 1) :
                  isa_ret' = [op |-> "get_random_instruction", kind |-> "instr",
                              name |-> ChoicesPick(CatalogNames, ws, x)]
    /\ UNCHANGED <<weights, isa_pc, call, mix>>
    /\ UNCHANGED genVars

\* get_weighted_random_from_list falling back on the whole catalog when the
\* list has no weight to draw from.
GetWeightedRandomFromList_Fallback(list) ==
    /\ isa_pc = "ready" /\ nops < MaxOps
    /\ nops' = nops + 1
    /\ LET ws == WeightsOf(list, weights)
       IN IF list = <<>> \/ ChoicesTotal(ws) <= 0
          THEN \E i \in InstrIdx :
                  isa_ret' = [op |-> "get_weighted_random_from_list", list |-> list,
                              kind |-> "instr", name |-> CatalogNames[i]]
          ELSE \E x \in 0 .. (ChoicesTotal(ws) - 1) :
                  isa_ret' = [op |-> "get_weighted_random_from_list", list |-> list,
                              kind |-> "instr", name |-> ChoicesPick(list, ws, x)]
    /\ UNCHANGED <<weights, isa_pc, call, mix>>
    /\ UNCHANGED genVars

\* RISCVISA.get_weighted_random_from_list(list)
GetWeightedRandomFromList(list) ==
    /\ isa_pc = "ready" /\ nops < MaxOps
    /\ nops' = nops + 1
    /\ LET ws == WeightsOf(list, weights)
       IN IF list = <<>>
          THEN isa_ret' = [op |-> "get_weighted_random_from_list", list |-> list,
                           kind |-> "error"]
          ELSE IF ChoicesTotal(ws) <= 0
          THEN isa_ret' = [op |-> "get_weighted_random_from_list", list |-> list,
                           kind |-> "error"]
          ELSE \E x \in 0 .. (ChoicesTotal(ws) - 1) :
                  isa_ret' = [op |-> "get_weighted_random_from_list", list |-> list,
                              kind |-> "instr", name |-> ChoicesPick(list, ws, x)]
    /\ UNCHANGED <<weights, isa_pc, call, mix>>
    /\ UNCHANGED genVars

EncOff == call = NoCall

InitWeights ==
    /\ EncOff /\ MixOff /\ GenOff
    /\ weights = [n \in {} |-> 0]
    /\ isa_pc = "new"
    /\ isa_ret = NoRet
    /\ nops = 0

NextWeights ==
    \/ \E ov \in OverrideInputs : New(ov)
    \/ \E name \in NameInputs, w \in WeightInputs : SetWeightByName(name, w)
    \/ \E fmt \in Formats, w \in WeightInputs : SetWeightByFormat(fmt, w)
    \/ GetRandomInstruction
    \/ \E list \in ListInputs : GetWeightedRandomFromList(list)

SpecWeights == InitWeights /\ [][NextWeights]_vars

---------------------------------------------------------------------------
(* Properties of the weight table and of weighted selection *)

Sampled ==
    /\ isa_ret.kind = "instr"
    /\ isa_ret.op \in {"get_random_instruction", "get_weighted_random_from_list"}

InList(name, list) == \E i \in 1 .. Len(list) : list[i] = name

\* C7: an instruction whose weight is 0 is never returned by
\* get_random_instruction nor by get_weighted_random_from_list on any list,
\* and get_weighted_random_from_list returns a member of the list it was
\* given.  (Sampling leaves the weights alone, so the weights of the state
\* are those the sample was drawn with.)
Thm_C7_ZeroWeightExcluded ==
    Sampled =>
        /\ weights[isa_ret.name] # 0
        /\ (isa_ret.op = "get_weighted_random_from_list"
               => InList(isa_ret.name, isa_ret.list))

\* add has weight 0, others of the R-type list have a positive weight, and a
\* sample was drawn from the R-type list.
Wit_C7_SampledBesideZero ==
    /\ Sampled
    /\ isa_ret.op = "get_weighted_random_from_list"
    /\ InList("add", isa_ret.list)
    /\ weights["add"] = 0
    /\ isa_ret.name = "sub"

\* The population the last selection drew from.
Population ==
    IF isa_ret.op = "get_random_instruction" THEN CatalogNames ELSE isa_ret.list

Claim_C9_WeightsNeverNegative ==
    isa_pc = "ready" =>
        /\ DOMAIN weights = Names
        /\ Cardinality(Names) = Len(Instructions)
        /\ \A n \in Names : weights[n] >= 0

\* C10: set_weight_by_name(name, w) with a known name and w >= 0 sets the
\* weight of that name to w and leaves every other weight as it was; with an
\* unknown name or w < 0 it raises and leaves the whole table as it was.
Thm_C10_SetWeightByName ==
    [][ (nops' = nops + 1 /\ isa_ret'.op = "set_weight_by_name") =>
            IF isa_ret'.name \in Names /\ isa_ret'.weight >= 0
            THEN /\ isa_ret'.kind = "none"
                 /\ DOMAIN weights' = DOMAIN weights
                 /\ \A n \in DOMAIN weights :
                       weights'[n] = IF n = isa_ret'.name THEN isa_ret'.weight
                                                          ELSE weights[n]
            ELSE /\ isa_ret'.kind = "error"
                 /\ weights' = weights ]_vars

\* set_weight_by_name("add", -1) has been refused on a table that add was
\* given the weight 2 in before.
Wit_C10_NegativeRefused ==
    /\ isa_ret.op = "set_weight_by_name"
    /\ isa_ret.name = "add" /\ isa_ret.weight = -1
    /\ isa_ret.kind = "error"
    /\ weights["add"] = 2

---------------------------------------------------------------------------
(* PatternGenerator.generate_mixed_patterns *)

\* An emitted instruction is identified here by the builder that emitted it
\* and its place in what that builder returned.
Emitted(by, n) == [k \in 1 .. n |-> [by |-> by, pos |-> k]]

\* PatternGenerator.generate_random_sequence(count): one
\* _generate_single_random_instruction per slot.
GenerateRandomSequence(n) == Emitted("random", n)

HasRd(d) == d.format \notin {"S", "B"}

HasSources(d) == d.format \notin {"U", "J"}

IsLoad(d) == d.name \in {"lw", "lh", "lb", "lhu", "lbu"}

IsStore(d) == d.name \in {"sw", "sh", "sb"}

WriteInstrs == SelectSeq(Instructions, HasRd)

ReadInstrs == SelectSeq(Instructions, HasSources)

\* What generate_load_store_pair returns.
GenerateLoadStorePair ==
    LET loads  == SelectSeq(Instructions, IsLoad)
        load_instrs == IF loads = <<>> THEN GetInstructionsByFormat("I") ELSE loads
        stores == SelectSeq(Instructions, IsStore)
        store_instrs == IF stores = <<>> THEN GetInstructionsByFormat("S") ELSE stores
    IN IF load_instrs = <<>> \/ store_instrs = <<>>
       THEN GenerateRandomSequence(2)
       ELSE Emitted("load_store", 2)

\* What generate_raw_hazard returns.
GenerateRawHazard ==
    IF Len(WriteInstrs) < 2 THEN GenerateRandomSequence(2) ELSE Emitted("raw", 2)

\* What generate_war_hazard returns.
GenerateWarHazard ==
    IF Len(ReadInstrs) < 2 THEN GenerateRandomSequence(2) ELSE Emitted("war", 2)

\* What generate_waw_hazard returns.
GenerateWawHazard ==
    IF Len(WriteInstrs) < 2 THEN GenerateRandomSequence(2) ELSE Emitted("waw", 2)

\* patterns = ['random', 'load_store', 'raw', 'war', 'waw'] when none is given
DefaultPatterns == <<"random", "load_store", "raw", "war", "waw">>

\* The members of list whose index is in keep, in their order.
RECURSIVE Pick(_, _, _)
Pick(list, keep, i) ==
    IF i > Len(list) THEN <<>>
    ELSE (IF i \in keep THEN <<list[i]>> ELSE <<>>) \o Pick(list, keep, i + 1)

\* Every non-empty list of pattern names, without repetition, in the order
\* of the default list.
PatternLists ==
    {Pick(DefaultPatterns, keep, 1) : keep \in (SUBSET (1 .. 5)) \ {{}}}

\* Densities and the values of random.random(), in hundredths.
DensityInputs == {-50, 0, 30, 100, 250}

RandomInputs == {0, 29, 30, 99}

CountInputs == 0 .. MaxCount

Min(a, b) == IF a < b THEN a ELSE b

Max(a, b) == IF a > b THEN a ELSE b

\* density = max(0.0, min(1.0, density))
ClipDensity(d) == Max(0, Min(100, d))

\* list[:n] for n >= 0
Prefix(list, n) == SubSeq(list, 1, Min(n, Len(list)))

\* One pass of the while loop with the fallback branch taking two slots for
\* the one instruction it emits.
MixedBody_FallbackTakesTwo(result, remaining, density, r, pattern_type) ==
    IF remaining >= 2 /\ r < density
    THEN CASE pattern_type = "load_store" /\ remaining >= 2 ->
                 [result |-> result \o GenerateLoadStorePair, remaining |-> remaining - 2]
           [] pattern_type = "raw" /\ remaining >= 2 ->
                 [result |-> result \o GenerateRawHazard, remaining |-> remaining - 2]
           [] pattern_type = "war" /\ remaining >= 2 ->
                 [result |-> result \o GenerateWarHazard, remaining |-> remaining - 2]
           [] pattern_type = "waw" /\ remaining >= 2 ->
                 [result |-> result \o GenerateWawHazard, remaining |-> remaining - 2]
           [] OTHER ->
                 [result |-> result \o GenerateRandomSequence(1), remaining |-> remaining - 2]
    ELSE [result |-> result \o GenerateRandomSequence(1), remaining |-> remaining - 1]

\* One pass of the while loop: r is the value of random.random() and
\* pattern_type the value of random.choice(patterns).
MixedBody(result, remaining, density, r, pattern_type) ==
    IF remaining >= 2 /\ r < density
    THEN CASE pattern_type = "load_store" /\ remaining >= 2 ->
                 [result |-> result \o GenerateLoadStorePair, remaining |-> remaining - 2]
           [] pattern_type = "raw" /\ remaining >= 2 ->
                 [result |-> result \o GenerateRawHazard, remaining |-> remaining - 2]
           [] pattern_type = "war" /\ remaining >= 2 ->
                 [result |-> result \o GenerateWarHazard, remaining |-> remaining - 2]
           [] pattern_type = "waw" /\ remaining >= 2 ->
                 [result |-> result \o GenerateWawHazard, remaining |-> remaining - 2]
           [] OTHER ->
                 [result |-> result \o GenerateRandomSequence(1), remaining |-> remaining - 1]
    ELSE [result |-> result \o GenerateRandomSequence(1), remaining |-> remaining - 1]

IsaDefault ==
    /\ weights = [n \in Names |-> DefaultWeight]
    /\ isa_pc = "ready"
    /\ isa_ret = NoRet
    /\ nops = 0

InitMixed ==
    /\ EncOff /\ IsaDefault /\ GenOff
    /\ mix \in [pc : {"args"}, count : CountInputs, patterns : PatternLists,
                density : DensityInputs, remaining : {0}, result : {<<>>},
                ret : {<<>>}]

\* Entry of generate_mixed_patterns: the density is clipped, the slot budget set.
MixedEnter ==
    /\ mix.pc = "args"
    /\ mix' = [mix EXCEPT !.pc = "loop",
                          !.density = ClipDensity(mix.density),
                          !.remaining = mix.count,
                          !.result = <<>>]
    /\ UNCHANGED <<call, weights, isa_pc, isa_ret, nops>>
    /\ UNCHANGED genVars

\* One pass of "while remaining > 0".
MixedIterate ==
    /\ mix.pc = "loop" /\ mix.remaining > 0
    /\ \E r \in RandomInputs, i \in 1 .. Len(mix.patterns) :
          LET b == MixedBody(mix.result, mix.remaining, mix.density, r, mix.patterns[i])
          IN mix' = [mix EXCEPT !.result = b.result, !.remaining = b.remaining]
    /\ UNCHANGED <<call, weights, isa_pc, isa_ret, nops>>
    /\ UNCHANGED genVars

\* The loop ends: return result[:count].
MixedReturn ==
    /\ mix.pc = "loop" /\ ~(mix.remaining > 0)
    /\ mix' = [mix EXCEPT !.pc = "done", !.ret = Prefix(mix.result, mix.count)]
    /\ UNCHANGED <<call, weights, isa_pc, isa_ret, nops>>
    /\ UNCHANGED genVars

NextMixed == MixedEnter \/ MixedIterate \/ MixedReturn

SpecMixed == InitMixed /\ [][NextMixed]_vars

\* C1: generate_mixed_patterns returns a list of exactly count instructions,
\* for every count >= 0, non-empty pattern list, density and random choices;
\* count = 7 with density 1.0 returns 7.
Thm_C1_MixedReturnsCount ==
    mix.pc = "done" => Len(mix.ret) = mix.count

\* A call with count = 7 and density 1.0 has returned after taking two-slot
\* patterns and, for its last slot, a single instruction.
Wit_C1_SevenAtFullDensity ==
    /\ mix.pc = "done"
    /\ mix.count = 7 /\ mix.density = 100
    /\ Len(mix.ret) = 7
    /\ mix.ret[1].by = "waw" /\ mix.ret[3].by = "load_store"
    /\ mix.ret[5].by = "raw" /\ mix.ret[7].by = "random"

---------------------------------------------------------------------------
(* The pattern builders of PatternGenerator (patterns.py), on an ISA with  *)
(* its load/store offset ranges                                            *)

\* random.randint(lo, hi): every value of an interval of at most MaxSpan + 1
\* values, the two ends of a longer one.
RandInt(lo, hi) == IF hi - lo <= MaxSpan THEN lo .. hi ELSE {lo, hi}

\* Registers.random(exclude_zero): randint(1, 31) or randint(0, 31).
RegistersRandom(exclude_zero) == IF exclude_zero THEN RandInt(1, 31) ELSE RandInt(0, 31)

\* load_store_offset_ranges as RISCVISA.__init__ stores it: a list of
\* <<base, size>> with size > 0.  The first is what the default arguments
\* (-2048, 2047) give.
DefaultRanges == << <<-2048, 4096>> >>

RangeInputs ==
    { DefaultRanges,
      << <<0, 2>>, <<4, 2>> >>,
      << <<4, 1>>, <<-1, 2>> >>,
      << <<16, 3>> >> }

RECURSIVE MinOf(_)
MinOf(list) ==
    IF Len(list) = 1 THEN list[1] ELSE Min(Head(list), MinOf(Tail(list)))

RECURSIVE MaxOf(_)
MaxOf(list) ==
    IF Len(list) = 1 THEN list[1] ELSE Max(Head(list), MaxOf(Tail(list)))

\* self.load_store_offset_min = min(all_offsets)
LoadStoreOffsetMin(ranges) == MinOf([i \in 1 .. Len(ranges) |-> ranges[i][1]])

\* self.load_store_offset_max = max(base + size - 1 for base, size in ranges)
LoadStoreOffsetMax(ranges) ==
    MaxOf([i \in 1 .. Len(ranges) |-> ranges[i][1] + ranges[i][2] - 1])

\* RISCVISA.generate_load_store_offset: the values it can return.
GenerateLoadStoreOffset(ranges) ==
    UNION { RandInt(ranges[i][1], ranges[i][1] + ranges[i][2] - 1) :
              i \in 1 .. Len(ranges) }

\* x & ~1
ClearBit0(x) == x - (x % 2)

\* PatternGenerator._get_immediate(instr): the values it can return.
GetImmediate(d, ranges) ==
    CASE d.imm_gen = "imm_12bit"      -> RandInt(-2048, 2047)
      [] d.imm_gen = "imm_5bit"       -> RandInt(0, 31)
      [] d.imm_gen = "imm_load_store" -> GenerateLoadStoreOffset(ranges)
      [] d.imm_gen = "imm_branch"     -> {ClearBit0(x) : x \in RandInt(-4096, 4094)}
      [] d.imm_gen = "imm_20bit"      -> RandInt(-524288, 524287)
      [] d.imm_gen = "imm_jump"       -> {ClearBit0(x) : x \in RandInt(-1048576, 1048574)}
      [] d.format = "R"               -> {0}
      [] d.format \in {"I", "S"}      -> RandInt(-2048, 2047)
      [] d.format = "B"               -> {ClearBit0(x) : x \in RandInt(-4096, 4094)}
      [] d.format = "U"               -> RandInt(-524288, 524287)
      [] d.format = "J"               -> {ClearBit0(x) : x \in RandInt(-1048576, 1048574)}
      [] OTHER                        -> {0}

\* One returned instruction: the definition and the operands handed to
\* instr.encode and instr.assembly.
Emit(d, rd, rs1, rs2, imm) ==
    [name |-> d.name, rd |-> rd, rs1 |-> rs1, rs2 |-> rs2, imm |-> imm]

\* The encoded word of a returned instruction: instr.encode(rd, rs1, rs2, imm).
WordOf(e) == Encode(ByName(e.name), e.rd, e.rs1, e.rs2, e.imm).word

FormatOf(e) == ByName(e.name).format

\* PatternGenerator._generate_single_random_instruction(instr) for the
\* definition d and the three registers drawn: the instructions it can return.
SingleRandomInstruction(d, rd, rs1, rs2, ranges) ==
    CASE d.name \in {"ebreak", "ecall"} -> {Emit(d, 0, 0, 0, 0)}
      [] d.format = "R"          -> {Emit(d, rd, rs1, rs2, 0)}
      [] d.format \in {"U", "J"} -> {Emit(d, rd, 0, 0, imm) : imm \in GetImmediate(d, ranges)}
      [] d.format = "I"          -> {Emit(d, rd, rs1, 0, imm) : imm \in GetImmediate(d, ranges)}
      [] d.format \in {"S", "B"} -> {Emit(d, 0, rs1, rs2, imm) : imm \in GetImmediate(d, ranges)}
      [] OTHER                   -> {Emit(d, rd, rs1, rs2, 0)}

\* self.isa.get_random_instruction() under a weight table: the definitions
\* it can return (none when random.choices raises).
RandomInstructionChoices(table) ==
    LET ws == WeightsOf(CatalogNames, table)
    IN IF ChoicesTotal(ws) <= 0 THEN {}
       ELSE {ByName(ChoicesPick(CatalogNames, ws, x)) : x \in 0 .. (ChoicesTotal(ws) - 1)}

\* _generate_single_random_instruction(instr) for instr drawn from defs: the
\* instructions it can return.
RandomInstructionsOf(defs, ranges) ==
    UNION { SingleRandomInstruction(d, rd, rs1, rs2, ranges) :
              d \in defs,
              rd \in RegistersRandom(FALSE),
              rs1 \in RegistersRandom(FALSE),
              rs2 \in RegistersRandom(FALSE) }

\* One _generate_single_random_instruction(): the instructions it can return.
SingleRandomInstructions(table, ranges) ==
    RandomInstructionsOf(RandomInstructionChoices(table), ranges)

\* generate_random_sequence(2): the lists it can return.
RandomSequenceOfTwo(table, ranges) ==
    {<<a, b>> : a \in SingleRandomInstructions(table, ranges),
                b \in SingleRandomInstructions(table, ranges)}

\* The immediate of a hazard instruction: _get_immediate(instr) for the
\* formats of takes, 0 for the others.
HazardImmediate(d, takes, ranges) ==
    IF d.format \in takes THEN GetImmediate(d, ranges) ELSE {0}

\* The writing instruction of a hazard pair (first of RAW, both of WAW,
\* second of WAR) once its registers are drawn.
WriteSide(d, rd, rs1, rs2, imm) ==
    CASE d.format = "R" -> Emit(d, rd, rs1, rs2, 0)
      [] d.format = "I" -> Emit(d, rd, rs1, 0, imm)
      [] d.format = "U" -> Emit(d, rd, 0, 0, imm)
      [] OTHER          -> Emit(d, rd, rs1, rs2, 0)

\* The reading instruction of a hazard pair (second of RAW, first of WAR):
\* the hazard register takes the role of rs1 or of rs2, the other source is
\* drawn; an I-format instruction then has its rs2 set to 0.
ReadSide(d, hazard_reg, use_as_rs1, other, rd_drawn, imm) ==
    LET rs1 == IF use_as_rs1 THEN hazard_reg ELSE other
        rs2 == IF use_as_rs1 THEN other ELSE hazard_reg
        rd  == IF d.format \notin {"S", "B"} THEN rd_drawn ELSE 0
    IN CASE d.format = "R" -> Emit(d, rd, rs1, rs2, 0)
         [] d.format = "I" -> Emit(d, rd, rs1, 0, imm)
         [] d.format = "S" -> Emit(d, 0, rs1, rs2, imm)
         [] d.format = "B" -> Emit(d, 0, rs1, rs2, imm)
         [] OTHER          -> Emit(d, rd, rs1, rs2, 0)

\* The second definition of a WAW pair drawn from the whole write list.
WawSecondChoices_Any(instr1) == WriteInstrs

\* [instr for instr in write_instrs if instr != instr1]
WawSecondChoices(instr1) == SelectSeq(WriteInstrs, LAMBDA d : d # instr1)

\* A builder call that has returned the list ret.
BuilderReturned(op, ret) == [pat EXCEPT !.pc = "done", !.op = op, !.ret = ret]

\* The instructions a hazard builder can make of a writing definition drawn
\* from instrs, with r as rd: two more registers and the immediate are drawn.
WriteSides(instrs, r, ranges) ==
    UNION { { WriteSide(instrs[i], r, rs1, rs2, imm) :
                rs1 \in RegistersRandom(TRUE), rs2 \in RegistersRandom(TRUE),
                imm \in HazardImmediate(instrs[i], {"I", "U"}, ranges) } :
            i \in 1 .. Len(instrs) }

\* The instructions a hazard builder can make of a reading definition drawn
\* from instrs, with r as the hazard register: the role, the other source,
\* rd (for a format that has one) and the immediate are drawn.
ReadSides(instrs, r, ranges) ==
    UNION { { ReadSide(instrs[i], r, use_as_rs1, other, rd, imm) :
                use_as_rs1 \in BOOLEAN, other \in RegistersRandom(TRUE),
                rd \in (IF instrs[i].format \notin {"S", "B"}
                        THEN RegistersRandom(TRUE) ELSE {0}),
                imm \in HazardImmediate(instrs[i], {"I", "S", "B"}, ranges) } :
            i \in 1 .. Len(instrs) }

\* A call of generate_raw_hazard on the generator: instr1 writes rd, instr2
\* reads it.
GenerateRawHazardCall ==
    /\ pat.pc = "args"
    /\ IF Len(WriteInstrs) < 2
       THEN \E p \in RandomSequenceOfTwo(weights, pat.ranges) :
               pat' = BuilderReturned("raw", p)
       ELSE \E rd \in RegistersRandom(TRUE) :
               \E a \in WriteSides(WriteInstrs, rd, pat.ranges),
                  b \in ReadSides(ReadInstrs, rd, pat.ranges) :
                  pat' = BuilderReturned("raw", <<a, b>>)
    /\ UNCHANGED isaVars
    /\ UNCHANGED <<sem, pg>>
    /\ UNCHANGED runVars

\* A call of generate_war_hazard on the generator: instr1 reads hazard_reg,
\* instr2 writes it.
GenerateWarHazardCall ==
    /\ pat.pc = "args"
    /\ IF Len(ReadInstrs) < 2
       THEN \E p \in RandomSequenceOfTwo(weights, pat.ranges) :
               pat' = BuilderReturned("war", p)
       ELSE \E hazard_reg \in RegistersRandom(TRUE) :
               \E a \in ReadSides(ReadInstrs, hazard_reg, pat.ranges),
                  b \in WriteSides(WriteInstrs, hazard_reg, pat.ranges) :
                  pat' = BuilderReturned("war", <<a, b>>)
    /\ UNCHANGED isaVars
    /\ UNCHANGED <<sem, pg>>
    /\ UNCHANGED runVars

\* A call of generate_waw_hazard on the generator: instr1 and another
\* definition both write hazard_reg.
GenerateWawHazardCall ==
    /\ pat.pc = "args"
    /\ IF Len(WriteInstrs) < 2
       THEN \E p \in RandomSequenceOfTwo(weights, pat.ranges) :
               pat' = BuilderReturned("waw", p)
       ELSE \E i1 \in 1 .. Len(WriteInstrs), hazard_reg \in RegistersRandom(TRUE) :
               \E a \in WriteSides(<<WriteInstrs[i1]>>, hazard_reg, pat.ranges),
                  b \in WriteSides(WawSecondChoices(WriteInstrs[i1]), hazard_reg,
                                   pat.ranges) :
                  pat' = BuilderReturned("waw", <<a, b>>)
    /\ UNCHANGED isaVars
    /\ UNCHANGED <<sem, pg>>
    /\ UNCHANGED runVars

\* A generator on RISCVISA(): default weights, default offset range.
InitHazards ==
    /\ EncOff /\ IsaDefault /\ MixOff /\ SemOff /\ RunOff
    /\ pat = [pc |-> "args", op |-> "none", ranges |-> DefaultRanges, ret |-> <<>>]

NextHazards ==
    \/ GenerateRawHazardCall
    \/ GenerateWarHazardCall
    \/ GenerateWawHazardCall

SpecHazards == InitHazards /\ [][NextHazards]_vars

---------------------------------------------------------------------------
(* Properties of the hazard builders, read off the encoded words *)

RdField(e) == Field(WordOf(e), 11, 7)

Rs1Field(e) == Field(WordOf(e), 19, 15)

Rs2Field(e) == Field(WordOf(e), 24, 20)

\* The instruction has an rd and its rd field is r.
WritesReg(e, r) == FormatOf(e) \notin {"S", "B"} /\ RdField(e) = r

\* r is in a source field the instruction's format has: rs1 for R, I, S, B
\* and rs2 for R, S, B.
ReadsReg(e, r) ==
    \/ FormatOf(e) \in {"R", "I", "S", "B"} /\ Rs1Field(e) = r
    \/ FormatOf(e) \in {"R", "S", "B"} /\ Rs2Field(e) = r

\* C11: in every pair generate_raw_hazard returns, the first instruction
\* writes a non-zero register r as its rd and the second reads r as a source
\* operand (rs1 or rs2) that its format has.
Claim_C11_RawSecondReadsFirstRd ==
    (pat.pc = "done" /\ pat.op = "raw") =>
        LET r == RdField(pat.ret[1])
        IN r # 0 /\ WritesReg(pat.ret[1], r) /\ ReadsReg(pat.ret[2], r)

\* C12: in every pair generate_war_hazard returns, the first instruction
\* reads a non-zero register r as a source operand (rs1 or rs2) that its
\* format has, and the second writes r as its rd.
Claim_C12_WarFirstReadsSecondRd ==
    (pat.pc = "done" /\ pat.op = "war") =>
        LET r == RdField(pat.ret[2])
        IN r # 0 /\ WritesReg(pat.ret[2], r) /\ ReadsReg(pat.ret[1], r)

\* C13: a pair generate_waw_hazard returns is made of two distinct
\* definitions, both of a format that has an rd (never S or B), whose encoded
\* rd fields, bits [11:7], are the same non-zero register.
Thm_C13_WawTwoWritersOneRd ==
    (pat.pc = "done" /\ pat.op = "waw") =>
        /\ pat.ret[1].name # pat.ret[2].name
        /\ FormatOf(pat.ret[1]) \notin {"S", "B"}
        /\ FormatOf(pat.ret[2]) \notin {"S", "B"}
        /\ RdField(pat.ret[1]) = RdField(pat.ret[2])
        /\ RdField(pat.ret[1]) # 0

\* A WAW pair of a U-format and a J-format definition on register 31.
Wit_C13_LuiJalOnX31 ==
    /\ pat.pc = "done" /\ pat.op = "waw"
    /\ pat.ret[1].name = "lui" /\ pat.ret[2].name = "jal"
    /\ RdField(pat.ret[1]) = 31 /\ RdField(pat.ret[2]) = 31

---------------------------------------------------------------------------
(* generate_load_store_pair and generate_load_store_offset, on ISAs with   *)
(* one or several offset ranges                                            *)

\* The pair with the store's data register drawn apart from the load's rd
\* (it takes the store's base register).
LoadStorePair_StoresItsBase(load, store, rd, rs1, store_rs1, load_imm, store_imm) ==
    << Emit(load, rd, rs1, 0, load_imm),
       Emit(store, 0, store_rs1, store_rs1, store_imm) >>

\* The two instructions generate_load_store_pair encodes: rs2 = rd.
LoadStorePair(load, store, rd, rs1, store_rs1, load_imm, store_imm) ==
    << Emit(load, rd, rs1, 0, load_imm),
       Emit(store, 0, store_rs1, rd, store_imm) >>

\* PatternGenerator.generate_load_store_pair(): the pairs it can return.
LoadStorePairs(table, ranges) ==
    LET loads  == SelectSeq(Instructions, IsLoad)
        load_instrs == IF loads = <<>> THEN GetInstructionsByFormat("I") ELSE loads
        stores == SelectSeq(Instructions, IsStore)
        store_instrs == IF stores = <<>> THEN GetInstructionsByFormat("S") ELSE stores
        offset_min == LoadStoreOffsetMin(ranges)
        offset_max == LoadStoreOffsetMax(ranges)
    IN IF load_instrs = <<>> \/ store_instrs = <<>>
       THEN RandomSequenceOfTwo(table, ranges)
       ELSE { LoadStorePair(load_instrs[i], store_instrs[j], rd, rs1,
                            store_rs1, load_imm, store_imm) :
                i \in 1 .. Len(load_instrs), j \in 1 .. Len(store_instrs),
                rd \in RegistersRandom(TRUE), rs1 \in RegistersRandom(TRUE),
                store_rs1 \in RegistersRandom(TRUE),
                load_imm \in RandInt(offset_min, offset_max),
                store_imm \in RandInt(offset_min, offset_max) }

\* A call of generate_load_store_pair on the generator.
GenerateLoadStorePairCall ==
    /\ pat.pc = "args"
    /\ \E p \in LoadStorePairs(weights, pat.ranges) :
          pat' = BuilderReturned("load_store", p)
    /\ UNCHANGED isaVars
    /\ UNCHANGED <<sem, pg>>
    /\ UNCHANGED runVars

\* RISCVISA.generate_load_store_offset()
GenerateLoadStoreOffsetCall ==
    /\ pat.pc = "args"
    /\ \E x \in GenerateLoadStoreOffset(pat.ranges) :
          pat' = BuilderReturned("offset", x)
    /\ UNCHANGED isaVars
    /\ UNCHANGED <<sem, pg>>
    /\ UNCHANGED runVars

\* A generator on RISCVISA(load_store_offset_ranges = ranges).
InitOffsets ==
    /\ EncOff /\ IsaDefault /\ MixOff /\ SemOff /\ RunOff
    /\ pat \in [pc : {"args"}, op : {"none"}, ranges : RangeInputs, ret : {<<>>}]

NextOffsets ==
    \/ GenerateLoadStorePairCall
    \/ GenerateLoadStoreOffsetCall

SpecOffsets == InitOffsets /\ [][NextOffsets]_vars

\* C14: generate_load_store_pair returns a load definition followed by a
\* store definition, and the store's rs2 field equals the load's rd field
\* (the base registers are drawn apart from it and from each other).
Thm_C14_StoreDataIsLoadRd ==
    (pat.pc = "done" /\ pat.op = "load_store") =>
        /\ Len(pat.ret) = 2
        /\ IsLoad(ByName(pat.ret[1].name))
        /\ IsStore(ByName(pat.ret[2].name))
        /\ Rs2Field(pat.ret[2]) = RdField(pat.ret[1])

\* A pair whose two base registers differ, one of them being the register
\* that carries the dependency.
Wit_C14_BasesDrawnApart ==
    /\ pat.pc = "done" /\ pat.op = "load_store"
    /\ RdField(pat.ret[1]) = 1 /\ Rs2Field(pat.ret[2]) = 1
    /\ Rs1Field(pat.ret[1]) = 1 /\ Rs1Field(pat.ret[2]) = 31

\* x lies in [base, base + size) of some configured range.
InConfiguredRange(x, ranges) ==
    \E i \in 1 .. Len(ranges) :
        ranges[i][1] <= x /\ x < ranges[i][1] + ranges[i][2]

\* C15: for any list of (base, size) ranges with size > 0, contiguous or not,
\* every offset generate_load_store_offset returns and every offset in the
\* load and the store of generate_load_store_pair lies in [base, base + size)
\* of some configured range.
Claim_C15_OffsetsInConfiguredRanges ==
    /\ (pat.pc = "done" /\ pat.op = "offset") =>
            InConfiguredRange(pat.ret, pat.ranges)
    /\ (pat.pc = "done" /\ pat.op = "load_store") =>
            /\ InConfiguredRange(pat.ret[1].imm, pat.ranges)
            /\ InConfiguredRange(pat.ret[2].imm, pat.ranges)

---------------------------------------------------------------------------
(* SemanticState and the recording of emitted instructions                 *)
(* (PatternGenerator._record_instruction)                                  *)

EmptyDict == [k \in {} |-> 0]

\* SemanticState(): the fields the generators use.  current_loop_counter_reg
\* is NoneInt for None.
FreshSemanticState ==
    [register_writers |-> EmptyDict, register_readers |-> EmptyDict,
     memory_accesses |-> EmptyDict, loop_nesting |-> 0,
     current_loop_counter_reg |-> NoneInt]

\* d[k] = v on a dict
DictSet(d, k, v) == [x \in (DOMAIN d) \cup {k} |-> IF x = k THEN v ELSE d[x]]

\* d[k].append(v) after "if k not in d: d[k] = []"
DictAppend(d, k, v) ==
    DictSet(d, k, (IF k \in DOMAIN d THEN d[k] ELSE <<>>) \o <<v>>)

\* SemanticState.update_register_write(reg, instr_idx)
UpdateRegisterWrite(s, reg, idx) ==
    [s EXCEPT !.register_writers = DictSet(@, reg, idx),
              !.register_readers = IF reg \in DOMAIN @ THEN @ ELSE DictSet(@, reg, <<>>)]

\* SemanticState.update_register_read(reg, instr_idx)
UpdateRegisterRead(s, reg, idx) ==
    [s EXCEPT !.register_readers = DictAppend(@, reg, idx)]

\* SemanticState.update_memory_access(base_reg, offset, instr_idx)
UpdateMemoryAccess(s, base_reg, offset, idx) ==
    [s EXCEPT !.memory_accesses = DictAppend(@, base_reg, <<offset, idx>>)]

\* The names _record_instruction takes for loads and stores.
MemoryNames == {"lb", "lh", "lw", "lbu", "lhu", "sb", "sh", "sw"}

\* What _record_instruction reads of an instruction: its registers, and its
\* immediate when it is a load or a store.
Recorded(e) ==
    [rd |-> e.rd, rs1 |-> e.rs1, rs2 |-> e.rs2,
     mem |-> e.name \in MemoryNames,
     imm |-> IF e.name \in MemoryNames THEN e.imm ELSE 0]

Records(set) == {Recorded(e) : e \in set}

\* _record_instruction recording every source register, zero included.
RecordInstruction_ZeroRead(s, idx, r) ==
    LET s1 == IF r.rd # 0 THEN UpdateRegisterWrite(s, r.rd, idx) ELSE s
        s2 == UpdateRegisterRead(s1, r.rs1, idx)
        s3 == UpdateRegisterRead(s2, r.rs2, idx)
    IN IF r.mem THEN UpdateMemoryAccess(s3, r.rs1, r.imm, idx) ELSE s3

\* The SemanticState after _record_instruction(instr, rd, rs1, rs2, imm) at
\* instruction index idx.
RecordInstruction(s, idx, r) ==
    LET s1 == IF r.rd # 0 THEN UpdateRegisterWrite(s, r.rd, idx) ELSE s
        s2 == IF r.rs1 # 0 THEN UpdateRegisterRead(s1, r.rs1, idx) ELSE s1
        s3 == IF r.rs2 # 0 THEN UpdateRegisterRead(s2, r.rs2, idx) ELSE s2
    IN IF r.mem THEN UpdateMemoryAccess(s3, r.rs1, r.imm, idx) ELSE s3

\* The generator and its state after _record_instruction on each member of
\* list in turn: nothing happens without a SemanticState, otherwise instr_idx
\* advances by one per instruction.
RECURSIVE RecordAll(_, _, _)
RecordAll(g, s, list) ==
    IF list = <<>> THEN [pg |-> g, sem |-> s]
    ELSE IF ~g.attached THEN [pg |-> g, sem |-> s]
    ELSE RecordAll([g EXCEPT !.instr_idx = @ + 1],
                   RecordInstruction(s, g.instr_idx, Head(list)),
                   Tail(list))

\* The weights of RISCVISA().
DefaultWeightTable == [n \in Names |-> DefaultWeight]

---------------------------------------------------------------------------
(* The operations of a PatternGenerator on RISCVISA(), with or without a   *)
(* SemanticState: what each records and how many instructions it returns   *)

\* An outcome of a builder: the instructions it hands to _record_instruction,
\* in order, and the number of instructions it returns.
Outcome(rec, n) == [rec |-> rec, n |-> n]

RecordedPairs(firsts, seconds) ==
    {Outcome(<<a, b>>, 2) : a \in Records(firsts), b \in Records(seconds)}

\* _generate_single_random_instruction(): recorded, returned.
RandomOutcomes ==
    {Outcome(<<a>>, 1) :
        a \in Records(SingleRandomInstructions(DefaultWeightTable, DefaultRanges))}

\* generate_random_sequence(2)
RandomTwoOutcomes ==
    {Outcome(a.rec \o b.rec, 2) : a \in RandomOutcomes, b \in RandomOutcomes}

\* generate_load_store_pair(): both instructions recorded.
LoadStoreOutcomes ==
    {Outcome(<<Recorded(p[1]), Recorded(p[2])>>, 2) :
        p \in LoadStorePairs(DefaultWeightTable, DefaultRanges)}

\* generate_raw_hazard(): both instructions recorded.
RawOutcomes ==
    IF Len(WriteInstrs) < 2 THEN RandomTwoOutcomes
    ELSE UNION { RecordedPairs(WriteSides(WriteInstrs, rd, DefaultRanges),
                               ReadSides(ReadInstrs, rd, DefaultRanges)) :
                 rd \in RegistersRandom(TRUE) }

\* generate_war_hazard(): both instructions recorded.
WarOutcomes ==
    IF Len(ReadInstrs) < 2 THEN RandomTwoOutcomes
    ELSE UNION { RecordedPairs(ReadSides(ReadInstrs, hazard_reg, DefaultRanges),
                               WriteSides(WriteInstrs, hazard_reg, DefaultRanges)) :
                 hazard_reg \in RegistersRandom(TRUE) }

\* generate_waw_hazard(): the two instructions are encoded and returned;
\* _record_instruction is not called for either.
WawOutcomes ==
    IF Len(WriteInstrs) < 2 THEN RandomTwoOutcomes
    ELSE {Outcome(<<>>, 2) :
            i1 \in {i \in 1 .. Len(WriteInstrs) :
                      WawSecondChoices(WriteInstrs[i]) # <<>>}}

\* The outcomes of the builder a pass of generate_mixed_patterns called,
\* named by the tag of what it appended.
BuilderOutcomes(tag, n) ==
    CASE tag = "load_store" -> LoadStoreOutcomes
      [] tag = "raw"        -> RawOutcomes
      [] tag = "war"        -> WarOutcomes
      [] tag = "waw"        -> WawOutcomes
      [] tag = "random" /\ n = 2 -> RandomTwoOutcomes
      [] OTHER              -> RandomOutcomes

\* The generator after a builder with outcome o has run inside the call in
\* progress: its instructions are recorded and added to the list being built.
AfterOutcome(o) ==
    LET n == RecordAll(pg, sem, o.rec)
    IN [pg |-> [n.pg EXCEPT !.out = @ + o.n], sem |-> n.sem]

\* The call in progress returns k instructions.
Return(g, k) ==
    [g EXCEPT !.pc = "idle", !.returned = @ + k, !.todo = 0, !.out = 0]

\* A pair builder runs on the idle generator and returns its two
\* instructions.
PairBuilderRuns(outcomes) ==
    \E o \in outcomes :
        LET n == AfterOutcome(o)
        IN sem' = n.sem /\ pg' = Return(n.pg, n.pg.out)

CallGenerateLoadStorePair ==
    /\ pg.pc = "idle" /\ pg.returned + 2 <= MaxInstr
    /\ PairBuilderRuns(LoadStoreOutcomes)
    /\ UNCHANGED isaVars
    /\ UNCHANGED pat
    /\ UNCHANGED runVars

CallGenerateRawHazard ==
    /\ pg.pc = "idle" /\ pg.returned + 2 <= MaxInstr
    /\ PairBuilderRuns(RawOutcomes)
    /\ UNCHANGED isaVars
    /\ UNCHANGED pat
    /\ UNCHANGED runVars

CallGenerateWarHazard ==
    /\ pg.pc = "idle" /\ pg.returned + 2 <= MaxInstr
    /\ PairBuilderRuns(WarOutcomes)
    /\ UNCHANGED isaVars
    /\ UNCHANGED pat
    /\ UNCHANGED runVars

CallGenerateWawHazard ==
    /\ pg.pc = "idle" /\ pg.returned + 2 <= MaxInstr
    /\ PairBuilderRuns(WawOutcomes)
    /\ UNCHANGED isaVars
    /\ UNCHANGED pat
    /\ UNCHANGED runVars

\* generate_random_sequence(count) is called: count passes of its loop are
\* to come (a count of 0 returns the empty list and changes nothing).
CallGenerateRandomSequence ==
    /\ pg.pc = "idle"
    /\ \E count \in 1 .. (MaxInstr - pg.returned) :
          pg' = [pg EXCEPT !.pc = "random_sequence", !.todo = count, !.out = 0]
    /\ UNCHANGED isaVars
    /\ UNCHANGED <<pat, sem>>
    /\ UNCHANGED runVars

\* One pass of the loop of generate_random_sequence; after the last one the
\* list is returned.
RandomSequenceIterate ==
    /\ pg.pc = "random_sequence" /\ pg.todo > 0
    /\ \E o \in RandomOutcomes :
          LET n == AfterOutcome(o)
          IN /\ sem' = n.sem
             /\ pg' = IF pg.todo = 1 THEN Return(n.pg, n.pg.out)
                      ELSE [n.pg EXCEPT !.todo = @ - 1]
    /\ UNCHANGED isaVars
    /\ UNCHANGED pat
    /\ UNCHANGED runVars

\* The elements of a list.
Range(list) == {list[i] : i \in 1 .. Len(list)}

\* generate_basic_block: an instruction of the first size - 1, drawn again
\* while its format is B or J.
BasicBlockBodyOutcomes ==
    {Outcome(<<a>>, 1) :
        a \in Records(RandomInstructionsOf(
                 {d \in RandomInstructionChoices(DefaultWeightTable) :
                     d.format \notin {"B", "J"}},
                 DefaultRanges))}

\* generate_basic_block: the last instruction, a branch or a jump when
\* random.random() > 0.5 (and again for the choice between the two), a
\* regular random instruction otherwise.
BasicBlockEndOutcomes ==
    LET branch_instrs == GetInstructionsByFormat("B")
        jump_instrs   == GetInstructionsByFormat("J")
        closing == IF branch_instrs # <<>> \/ jump_instrs # <<>>
                   THEN {Outcome(<<a>>, 1) :
                           a \in Records(RandomInstructionsOf(
                                    Range(branch_instrs) \cup Range(jump_instrs),
                                    DefaultRanges))}
                   ELSE RandomOutcomes
    IN closing \cup RandomOutcomes

\* generate_basic_block(size) is called: a size below 2 is handed to
\* generate_random_sequence(size).
CallGenerateBasicBlock ==
    /\ pg.pc = "idle"
    /\ \E size \in 1 .. (MaxInstr - pg.returned) :
          pg' = IF size < 2
                THEN [pg EXCEPT !.pc = "random_sequence", !.todo = size, !.out = 0]
                ELSE [pg EXCEPT !.pc = "basic_block", !.todo = size - 1, !.out = 0]
    /\ UNCHANGED isaVars
    /\ UNCHANGED <<pat, sem>>
    /\ UNCHANGED runVars

\* One pass of "for _ in range(size - 1)".
BasicBlockIterate ==
    /\ pg.pc = "basic_block" /\ pg.todo > 0
    /\ \E o \in BasicBlockBodyOutcomes :
          LET n == AfterOutcome(o)
          IN sem' = n.sem /\ pg' = [n.pg EXCEPT !.todo = @ - 1]
    /\ UNCHANGED isaVars
    /\ UNCHANGED pat
    /\ UNCHANGED runVars

\* The last instruction of the block, and the return.
BasicBlockEnd ==
    /\ pg.pc = "basic_block" /\ pg.todo = 0
    /\ \E o \in BasicBlockEndOutcomes :
          LET n == AfterOutcome(o)
          IN sem' = n.sem /\ pg' = Return(n.pg, n.pg.out)
    /\ UNCHANGED isaVars
    /\ UNCHANGED pat
    /\ UNCHANGED runVars

\* The pattern lists and densities given to generate_mixed_patterns on a
\* generator that records.
RecordedPatternLists == {DefaultPatterns, <<"waw", "random">>, <<"load_store">>}

RecordedDensityInputs == {30, 100}

\* generate_mixed_patterns(count, patterns, density) is called on the
\* generator: the density is clipped, the slot budget set.
CallGenerateMixedPatterns ==
    /\ pg.pc = "idle"
    /\ \E count \in 1 .. (MaxInstr - pg.returned),
          patterns \in RecordedPatternLists, density \in RecordedDensityInputs :
          mix' = [pc |-> "loop", count |-> count, patterns |-> patterns,
                  density |-> ClipDensity(density), remaining |-> count,
                  result |-> <<>>, ret |-> <<>>]
    /\ pg' = [pg EXCEPT !.pc = "mixed", !.todo = 0, !.out = 0]
    /\ UNCHANGED <<call, weights, isa_pc, isa_ret, nops>>
    /\ UNCHANGED <<pat, sem>>
    /\ UNCHANGED runVars

\* One pass of "while remaining > 0": the builder the pass calls records
\* its instructions.
MixedPatternsIterate ==
    /\ pg.pc = "mixed" /\ mix.remaining > 0
    /\ \E r \in RandomInputs, i \in 1 .. Len(mix.patterns) :
          LET b == MixedBody(mix.result, mix.remaining, mix.density, r, mix.patterns[i])
              k == Len(b.result) - Len(mix.result)
              tag == b.result[Len(b.result)].by
          IN \E o \in BuilderOutcomes(tag, k) :
                LET n == AfterOutcome(o)
                IN /\ sem' = n.sem
                   /\ pg' = n.pg
                   /\ mix' = [mix EXCEPT !.result = b.result, !.remaining = b.remaining]
    /\ UNCHANGED <<call, weights, isa_pc, isa_ret, nops>>
    /\ UNCHANGED pat
    /\ UNCHANGED runVars

\* The loop ends: result[:count] is returned.
MixedPatternsReturn ==
    /\ pg.pc = "mixed" /\ ~(mix.remaining > 0)
    /\ pg' = Return(pg, Len(Prefix(mix.result, mix.count)))
    /\ mix' = [pc |-> "off"]
    /\ UNCHANGED <<call, weights, isa_pc, isa_ret, nops>>
    /\ UNCHANGED <<pat, sem>>
    /\ UNCHANGED runVars

---------------------------------------------------------------------------
(* SequenceStep (sequence_patterns.py): the resolution of a step's         *)
(* registers and immediate, and SequenceStep.generate                      *)

\* A register specification of a step.  type is "absent" when the step has
\* none for the field (self.reg_specs.get(field) is None), "int" for a bare
\* register number, and otherwise the 'type' of the dict; has lists the keys
\* the dict carries.
RegSpec(type, has, value, allowed, exclude_zero, name, field, exclude) ==
    [type |-> type, has |-> has, value |-> value, allowed |-> allowed,
     exclude_zero |-> exclude_zero, name |-> name, field |-> field,
     exclude |-> exclude]

Absent == RegSpec("absent", {}, 0, <<>>, FALSE, "", "", <<>>)

\* The field is present with the value None.
NullRegister == RegSpec("null", {}, 0, <<>>, FALSE, "", "", <<>>)

BareRegister(v) == RegSpec("int", {}, v, <<>>, FALSE, "", "", <<>>)

FixedRegister(v) == RegSpec("register", {"value"}, v, <<>>, FALSE, "", "", <<>>)

AllowedRegisters(allowed, exclude_zero) ==
    RegSpec("register", {"allowed"}, 0, allowed, exclude_zero, "", "", <<>>)

VariableRegister(name) == RegSpec("variable", {}, 0, <<>>, FALSE, name, "", <<>>)

SameAs(field) == RegSpec("same_as", {}, 0, <<>>, FALSE, "", field, <<>>)

\* exclude is a list of ExcludeInt and ExcludeVariable entries.
DifferentFrom(exclude, allowed) ==
    RegSpec("different_from", {"allowed"}, 0, allowed, FALSE, "", "", exclude)

DifferentFromAny(exclude) ==
    RegSpec("different_from", {}, 0, <<>>, FALSE, "", "", exclude)

\* list(range(32))
AllRegisters == [i \in 1 .. 32 |-> i - 1]

\* The registers a 'different_from' specification rules out: the numbers of
\* its exclude list and the values of the variables it names that are set.
Excluded(exclude, variables) ==
    {x.value : x \in {y \in Range(exclude) : y.kind = "int"}}
    \cup {variables[x.name] :
            x \in {y \in Range(exclude) : y.kind = "variable" /\ y.name \in DOMAIN variables}}

ExcludeInt(v) == [kind |-> "int", value |-> v, name |-> ""]

ExcludeVariable(name) == [kind |-> "variable", value |-> 0, name |-> name]

\* SequenceStep.resolve_register(reg_spec, context): the values it can
\* return.  reg_specs are the step's specifications by field, variables is
\* context['variables'], and depth bounds the chain of same_as references.
RECURSIVE ResolveRegister(_, _, _, _)
ResolveRegister(reg_spec, reg_specs, variables, depth) ==
    LET default == RandInt(0, 31)
    IN CASE reg_spec.type \in {"absent", "null"} -> {0}
         [] reg_spec.type = "int" -> {reg_spec.value}
         [] reg_spec.type = "register" /\ "value" \in reg_spec.has -> {reg_spec.value}
         [] reg_spec.type = "register" /\ "allowed" \in reg_spec.has
                                       /\ reg_spec.allowed # <<>> ->
               LET non_zero == Range(reg_spec.allowed) \ {0}
               IN IF reg_spec.exclude_zero /\ non_zero # {}
                  THEN non_zero
                  ELSE Range(reg_spec.allowed)
         [] reg_spec.type = "variable" /\ reg_spec.name \in DOMAIN variables ->
               {variables[reg_spec.name]}
         [] reg_spec.type = "same_as" /\ reg_spec.field \in DOMAIN reg_specs
                                      /\ reg_specs[reg_spec.field].type # "absent" ->
               IF depth = 0 THEN {}
               ELSE ResolveRegister(reg_specs[reg_spec.field], reg_specs, variables, depth - 1)
         [] reg_spec.type = "different_from"
               /\ Range(IF "allowed" \in reg_spec.has THEN reg_spec.allowed ELSE AllRegisters)
                    \ Excluded(reg_spec.exclude, variables) # {} ->
               Range(IF "allowed" \in reg_spec.has THEN reg_spec.allowed ELSE AllRegisters)
                    \ Excluded(reg_spec.exclude, variables)
         [] OTHER -> default

\* The constraint of a step on one immediate type.
ImmConstraint(has, value, allowed_values, min, max, alignment) ==
    [has |-> has, value |-> value, allowed_values |-> allowed_values,
     min |-> min, max |-> max, alignment |-> alignment]

\* The immediate type of a format; "" for R.
ImmType(fmt) ==
    CASE fmt = "I" -> "i_type" [] fmt = "S" -> "s_type" [] fmt = "B" -> "b_type"
      [] fmt = "U" -> "u_type" [] fmt = "J" -> "j_type" [] OTHER -> ""

\* The default of resolve_immediate: a small immediate for I and S, a
\* branch offset for B, 0 for the others.
DefaultImmediate(fmt) ==
    CASE fmt \in {"I", "S"} -> RandInt(-100, 100)
      [] fmt = "B" -> {-20, -16, -12, -8, -4, 4, 8, 12, 16, 20}
      [] OTHER -> {0}

\* SequenceStep.resolve_immediate(instr, context): the values it can return.
\* immediates is constraints['immediates'], a dict from immediate type to
\* constraint.
ResolveImmediate(d, immediates) ==
    LET imm_type == ImmType(d.format)
        c == immediates[imm_type]
    IN IF imm_type # "" /\ imm_type \in DOMAIN immediates
       THEN CASE "value" \in c.has -> {c.value}
              [] "allowed_values" \in c.has ->
                    IF c.allowed_values # <<>> THEN Range(c.allowed_values)
                    ELSE DefaultImmediate(d.format)
              [] "min" \in c.has /\ "max" \in c.has ->
                    LET alignment == IF "alignment" \in c.has THEN c.alignment ELSE 1
                        aligned_min == ((c.min + alignment - 1) \div alignment) * alignment
                        aligned_max == (c.max \div alignment) * alignment
                    IN IF alignment > 1
                       THEN IF aligned_min > aligned_max THEN {0}
                            ELSE {x * alignment :
                                    x \in RandInt(aligned_min \div alignment,
                                                  aligned_max \div alignment)}
                       ELSE RandInt(c.min, c.max)
              [] OTHER -> DefaultImmediate(d.format)
       ELSE DefaultImmediate(d.format)

\* A step: the instruction names it draws from, its register specifications
\* and its immediate constraints.
Step(names, rd, rs1, rs2, immediates) ==
    [names |-> names, reg_specs |-> [rd |-> rd, rs1 |-> rs1, rs2 |-> rs2],
     immediates |-> immediates]

\* The longest chain of same_as references between the fields rd, rs1 and
\* rs2 that does not come back to a field; a longer one does not return.
MaxSameAs == 3

\* SequenceStep.generate(isa, pattern_gen, context): the instructions it can
\* return, as encoded; none when it raises (no names, a name the ISA does
\* not have).
StepInstructions(step, variables) ==
    UNION { IF name \notin Names THEN {}
            ELSE { Emit(ByName(name), rd, rs1, rs2, imm) :
                     rd  \in ResolveRegister(step.reg_specs.rd, step.reg_specs, variables, MaxSameAs),
                     rs1 \in ResolveRegister(step.reg_specs.rs1, step.reg_specs, variables, MaxSameAs),
                     rs2 \in ResolveRegister(step.reg_specs.rs2, step.reg_specs, variables, MaxSameAs),
                     imm \in ResolveImmediate(ByName(name), step.immediates) } :
            name \in Range(step.names) }

\* The steps and contexts SequenceStep.generate is called with.
NoImmediates == EmptyDict

AlignedIType ==
    [t \in {"i_type"} |-> ImmConstraint({"min", "max", "alignment"}, 0, <<>>, -8, 8, 4)]

StepInputs ==
    { Step(<<"add">>, Absent, Absent, Absent, NoImmediates),
      Step(<<"addi", "lw">>, AllowedRegisters(<<0, 1>>, FALSE), BareRegister(0),
           NullRegister, AlignedIType),
      Step(<<"sw">>, Absent, FixedRegister(0), VariableRegister("v"), NoImmediates),
      Step(<<"sub">>, AllowedRegisters(<<0>>, TRUE), SameAs("rd"),
           DifferentFrom(<<ExcludeInt(1), ExcludeVariable("v")>>, <<0, 1, 31>>),
           NoImmediates),
      Step(<<"mul">>, Absent, Absent, Absent, NoImmediates),
      Step(<<>>, Absent, Absent, Absent, NoImmediates) }

ContextInputs == {EmptyDict, [n \in {"v"} |-> 0], [n \in {"v"} |-> 31]}

\* SequenceStep.generate(isa, pattern_gen, context) on the generator: the
\* instruction is encoded, then recorded, then returned.  A call that raises
\* does so before it records and leaves the generator as it was.
CallStepGenerate ==
    /\ pg.pc = "idle" /\ pg.returned + 1 <= MaxInstr
    /\ \E step \in StepInputs, variables \in ContextInputs :
          \E r \in Records(StepInstructions(step, variables)) :
             LET n == AfterOutcome(Outcome(<<r>>, 1))
             IN sem' = n.sem /\ pg' = Return(n.pg, n.pg.out)
    /\ UNCHANGED isaVars
    /\ UNCHANGED pat
    /\ UNCHANGED runVars

\* PatternGenerator(RISCVISA(), semantic_state = SemanticState()), or the
\* same without a SemanticState.
InitSemantic ==
    /\ EncOff /\ IsaDefault /\ MixOff /\ PatOff /\ RunOff
    /\ sem = FreshSemanticState
    /\ pg \in [attached : BOOLEAN, instr_idx : {0}, returned : {0},
               pc : {"idle"}, todo : {0}, out : {0}]

NextSemantic ==
    \/ CallGenerateLoadStorePair
    \/ CallGenerateRawHazard
    \/ CallGenerateWarHazard
    \/ CallGenerateWawHazard
    \/ CallGenerateRandomSequence
    \/ RandomSequenceIterate
    \/ CallGenerateBasicBlock
    \/ BasicBlockIterate
    \/ BasicBlockEnd
    \/ CallGenerateMixedPatterns
    \/ MixedPatternsIterate
    \/ MixedPatternsReturn
    \/ CallStepGenerate

SpecSemantic == InitSemantic /\ [][NextSemantic]_vars

\* C16: with a SemanticState attached, after any sequence of PatternGenerator
\* operations instr_idx equals the number of instructions returned so far.
Claim_C16_InstrIdxCountsReturned ==
    (pg.attached /\ pg.pc = "idle") => pg.instr_idx = pg.returned

\* C17: after any sequence of PatternGenerator and SequenceStep.generate
\* operations on an attached SemanticState, register 0 is not a key of
\* register_writers and has no reader index in register_readers.
Thm_C17_ZeroNeverRecorded ==
    pg.attached =>
        /\ 0 \notin DOMAIN sem.register_writers
        /\ 0 \in DOMAIN sem.register_readers => sem.register_readers[0] = <<>>

\* MaxInstr instructions have been recorded, one of them a load or store on
\* base register x0, and some instruction read a non-zero register.
Wit_C17_BaseZeroRecorded ==
    /\ pg.attached /\ pg.pc = "idle" /\ pg.instr_idx = MaxInstr
    /\ 0 \in DOMAIN sem.memory_accesses
    /\ DOMAIN sem.register_readers # {}

---------------------------------------------------------------------------
(* Loop nesting of SemanticState (enter_loop / exit_loop)                  *)

\* Deepest nesting the model enters.
MaxNesting == 4

\* counter_reg of enter_loop: None (the default) or a register number.
CounterRegInputs == {NoneInt} \cup (0 .. 31)

\* SemanticState.enter_loop(counter_reg)
EnterLoop(s, counter_reg) ==
    [s EXCEPT !.loop_nesting = @ + 1,
              !.current_loop_counter_reg = counter_reg]

\* exit_loop that keeps the counter register when the depth reaches 0.
ExitLoop_KeepsCounter(s) ==
    [s EXCEPT !.loop_nesting = Max(0, @ - 1)]

\* SemanticState.exit_loop(): max(0, loop_nesting - 1), and the counter
\* register is dropped when the new depth is 0.
ExitLoop(s) ==
    LET depth == Max(0, s.loop_nesting - 1)
    IN  [s EXCEPT !.loop_nesting = depth,
                  !.current_loop_counter_reg = IF depth = 0 THEN NoneInt ELSE @]

\* A caller calls enter_loop; loops remembers the call and the state before it.
CallEnterLoop ==
    /\ loops.pc # "off"
    /\ sem.loop_nesting < MaxNesting
    /\ \E counter_reg \in CounterRegInputs :
          /\ sem' = EnterLoop(sem, counter_reg)
          /\ loops' = [pc |-> "called", op |-> "enter_loop", before |-> sem]
    /\ UNCHANGED isaVars
    /\ UNCHANGED <<pat, pg, det, seq>>
    /\ UNCHANGED tailVars

\* A caller calls exit_loop, at any depth.
CallExitLoop ==
    /\ loops.pc # "off"
    /\ sem' = ExitLoop(sem)
    /\ loops' = [pc |-> "called", op |-> "exit_loop", before |-> sem]
    /\ UNCHANGED isaVars
    /\ UNCHANGED <<pat, pg, det, seq>>
    /\ UNCHANGED tailVars

InitLoops ==
    /\ EncOff /\ IsaDefault /\ MixOff /\ PatOff /\ DetOff /\ SeqOff /\ TailOff
    /\ pg = [pc |-> "off"]
    /\ sem = FreshSemanticState
    /\ loops = [pc |-> "new", op |-> "none", before |-> FreshSemanticState]

NextLoops == CallEnterLoop \/ CallExitLoop

SpecLoops == InitLoops /\ [][NextLoops]_vars

\* C18: the depth is never negative; with the depth at 0 the loop-counter
\* register is None; enter_loop raises the depth by exactly 1; exit_loop
\* lowers it by exactly 1 at depth > 0 and leaves it at 0 at depth 0.
Thm_C18_LoopNestingSteps ==
    /\ sem.loop_nesting >= 0
    /\ sem.loop_nesting = 0 => sem.current_loop_counter_reg = NoneInt
    /\ (loops.pc = "called" /\ loops.op = "enter_loop") =>
            sem.loop_nesting = loops.before.loop_nesting + 1
    /\ (loops.pc = "called" /\ loops.op = "exit_loop") =>
            /\ loops.before.loop_nesting > 0 =>
                    sem.loop_nesting = loops.before.loop_nesting - 1
            /\ loops.before.loop_nesting = 0 => sem.loop_nesting = 0

\* exit_loop has closed the outermost loop, whose counter was register 7.
Wit_C18_OutermostLoopClosed ==
    /\ loops.pc = "called" /\ loops.op = "exit_loop"
    /\ loops.before.loop_nesting = 1
    /\ loops.before.current_loop_counter_reg = 7
    /\ sem.loop_nesting = 0

---------------------------------------------------------------------------
(* Two sessions of RISCVISA.generate_random on one seed                    *)
(* (test_reproducible_generation: seed, generate, seed, generate)          *)

\* The module-level generator of `random` is a state machine: seeding sets
\* its state, every draw reads the state and advances it.  The model keeps a
\* state below DrawGrain, reads the variate random() as rng / DrawGrain and
\* advances by a full-period congruence; randint, choice and choices scale
\* one variate each.
DrawGrain == 16

\* Instructions asked of one generate_random call.
MaxDet == 2

\* random.seed(seed) that leaves the generator where it was.
RandomSeed_KeepsState(rng, seed) == rng

\* random.seed(seed): the state depends on the seed alone.
RandomSeed(rng, seed) == seed % DrawGrain

\* The state after one draw.
RandomNext(rng) == (5 * rng + 3) % DrawGrain

\* random.randint(lo, hi) on the variate rng / DrawGrain
RandIntOf(rng, lo, hi) == lo + (rng * (hi - lo + 1)) \div DrawGrain

\* A draw: the value returned and the state of the generator after it.
Drawn(value, rng) == [value |-> value, rng |-> rng]

\* RISCVISA.generate_load_store_offset(): random.choice of a range, then
\* randint within it.
GenerateLoadStoreOffsetOf(ranges, rng) ==
    LET range == ranges[(rng * Len(ranges)) \div DrawGrain + 1]
        rng1  == RandomNext(rng)
    IN  Drawn(RandIntOf(rng1, range[1], range[1] + range[2] - 1), RandomNext(rng1))

\* instr.imm_gen() of the catalog, or no draw when the instruction has none.
ImmGen(d, ranges, rng) ==
    CASE d.imm_gen = "imm_12bit"      -> Drawn(RandIntOf(rng, -2048, 2047), RandomNext(rng))
      [] d.imm_gen = "imm_5bit"       -> Drawn(RandIntOf(rng, 0, 31), RandomNext(rng))
      [] d.imm_gen = "imm_load_store" -> GenerateLoadStoreOffsetOf(ranges, rng)
      [] d.imm_gen = "imm_branch"     -> Drawn(ClearBit0(RandIntOf(rng, -4096, 4094)), RandomNext(rng))
      [] d.imm_gen = "imm_20bit"      -> Drawn(RandIntOf(rng, -524288, 524287), RandomNext(rng))
      [] d.imm_gen = "imm_jump"       -> Drawn(ClearBit0(RandIntOf(rng, -1048576, 1048574)), RandomNext(rng))
      [] OTHER                        -> Drawn(0, rng)

\* Instruction.assembly(rd, rs1, rs2, imm): the mnemonic, the layout of the
\* operand text and the numbers printed in it, in order.
Asm(name, layout, operands) == [name |-> name, layout |-> layout, operands |-> operands]

Assembly(d, rd, rs1, rs2, imm) ==
    CASE d.name \in {"ebreak", "ecall"} -> Asm(d.name, "bare", <<>>)
      [] d.format = "R" -> Asm(d.name, "rd, rs1, rs2", <<rd, rs1, rs2>>)
      [] d.format = "I" /\ d.name \in {"slli", "srli", "srai"} ->
                           Asm(d.name, "rd, rs1, shamt", <<rd, rs1, imm % 32>>)
      [] d.format = "I" /\ d.name \in {"lb", "lh", "lw", "lbu", "lhu", "jalr"} ->
                           Asm(d.name, "rd, imm(rs1)", <<rd, imm, rs1>>)
      [] d.format = "I" -> Asm(d.name, "rd, rs1, imm", <<rd, rs1, imm>>)
      [] d.format = "S" -> Asm(d.name, "rs2, imm(rs1)", <<rs2, imm, rs1>>)
      [] d.format = "B" -> Asm(d.name, "rs1, rs2, imm", <<rs1, rs2, imm>>)
      [] d.format = "U" -> Asm(d.name, "rd, imm", <<rd, imm>>)
      [] d.format = "J" -> Asm(d.name, "rd, imm", <<rd, imm>>)
      [] OTHER          -> Asm(d.name, "unknown_format", <<>>)

\* The operands generate_with_registers keeps for a format.
KeptOperands(d, rd, rs1, rs2, imm) ==
    CASE d.name \in {"ebreak", "ecall"} -> Emit(d, 0, 0, 0, 0)
      [] d.format = "R"          -> Emit(d, rd, rs1, rs2, 0)
      [] d.format \in {"U", "J"} -> Emit(d, rd, 0, 0, imm)
      [] d.format = "I"          -> Emit(d, rd, rs1, 0, imm)
      [] d.format \in {"S", "B"} -> Emit(d, 0, rs1, rs2, imm)
      [] OTHER                   -> Emit(d, rd, rs1, rs2, imm)

\* Instruction.generate_with_registers(rd, rs1, rs2, imm=None): the draw of
\* the immediate, then (encoded, asm).
GenerateWithRegisters(d, rd, rs1, rs2, ranges, rng) ==
    LET imm == ImmGen(d, ranges, rng)
        e   == KeptOperands(d, rd, rs1, rs2, imm.value)
    IN  Drawn([word |-> Encode(d, e.rd, e.rs1, e.rs2, e.imm).word,
               asm  |-> Assembly(d, e.rd, e.rs1, e.rs2, e.imm)], imm.rng)

\* RISCVISA.generate_random_instruction(instr): rd, rs1 and rs2 drawn in the
\* configured ranges, in this order.
GenerateRandomInstruction(d, cfg, rng) ==
    LET rd   == RandIntOf(rng, cfg.rd[1], cfg.rd[2])
        rng1 == RandomNext(rng)
        rs1  == RandIntOf(rng1, cfg.rs1[1], cfg.rs1[2])
        rng2 == RandomNext(rng1)
        rs2  == RandIntOf(rng2, cfg.rs2[1], cfg.rs2[2])
    IN  GenerateWithRegisters(d, rd, rs1, rs2, cfg.ranges, RandomNext(rng2))

\* One pass of the loop of generate_random under a weight table whose total
\* is positive: get_random_instruction, then generate_random_instruction.
GenerateRandomPass(table, cfg, rng) ==
    LET ws   == WeightsOf(CatalogNames, table)
        name == ChoicesPick(CatalogNames, ws, (rng * ChoicesTotal(ws)) \div DrawGrain)
    IN  GenerateRandomInstruction(ByName(name), cfg, RandomNext(rng))

\* Configurations of the constructor: register ranges and offset ranges.
Config(rd, rs1, rs2, ranges) == [rd |-> rd, rs1 |-> rs1, rs2 |-> rs2, ranges |-> ranges]

ConfigInputs ==
    { Config(<<0, 31>>, <<0, 31>>, <<0, 31>>, DefaultRanges),
      Config(<<1, 8>>, <<2, 2>>, <<0, 31>>, << <<0, 2>>, <<4, 2>> >>) }

MemoryWeightTable == [n \in Names |-> IF n \in {"lw", "sw", "jal", "slli"} THEN 2 ELSE 0]

ZeroWeightTable == [n \in Names |-> 0]

WeightTableInputs == {DefaultWeightTable, MemoryWeightTable, ZeroWeightTable}

SeedInputs == {0, 5, 42}

\* What a session ends with: the list returned, or the ValueError of
\* random.choices.
SessionReturned(list) == [ok |-> TRUE, list |-> list]

SessionRaised == [ok |-> FALSE, list |-> <<>>]

\* The end of a session: its value is kept and the next session, if any,
\* starts with random.seed.
EndSession(d, value) ==
    IF d.session = 1
    THEN [d EXCEPT !.results1 = value, !.session = 2, !.pc = "seed", !.results = <<>>]
    ELSE [d EXCEPT !.results2 = value, !.pc = "done", !.results = <<>>]

\* random.seed(seed); results = []
SeedCall ==
    /\ det.pc = "seed"
    /\ det' = [det EXCEPT !.rng = RandomSeed(det.rng, det.seed), !.pc = "loop",
                          !.results = <<>>]
    /\ UNCHANGED isaVars
    /\ UNCHANGED <<pat, sem, pg, loops, seq>>
    /\ UNCHANGED tailVars

\* One pass of "for _ in range(count)".
GenerateRandomIterate ==
    /\ det.pc = "loop"
    /\ Len(det.results) < det.count
    /\ ChoicesTotal(WeightsOf(CatalogNames, weights)) > 0
    /\ LET pass == GenerateRandomPass(weights, det.cfg, det.rng)
       IN  det' = [det EXCEPT !.results = Append(@, pass.value), !.rng = pass.rng]
    /\ UNCHANGED isaVars
    /\ UNCHANGED <<pat, sem, pg, loops, seq>>
    /\ UNCHANGED tailVars

\* A pass in which random.choices raises: no weight is positive.
GenerateRandomRaise ==
    /\ det.pc = "loop"
    /\ Len(det.results) < det.count
    /\ ChoicesTotal(WeightsOf(CatalogNames, weights)) <= 0
    /\ det' = EndSession(det, SessionRaised)
    /\ UNCHANGED isaVars
    /\ UNCHANGED <<pat, sem, pg, loops, seq>>
    /\ UNCHANGED tailVars

\* return results
GenerateRandomReturn ==
    /\ det.pc = "loop"
    /\ Len(det.results) = det.count
    /\ det' = EndSession(det, SessionReturned(det.results))
    /\ UNCHANGED isaVars
    /\ UNCHANGED <<pat, sem, pg, loops, seq>>
    /\ UNCHANGED tailVars

InitSessions ==
    /\ EncOff /\ MixOff /\ PatOff /\ SemOff /\ LoopsOff /\ SeqOff /\ TailOff
    /\ weights \in WeightTableInputs
    /\ isa_pc = "ready"
    /\ isa_ret = NoRet
    /\ nops = 0
    /\ det \in [pc : {"seed"}, session : {1}, seed : SeedInputs,
                rng : 0 .. (DrawGrain - 1), count : 0 .. MaxDet,
                cfg : ConfigInputs, results : {<<>>},
                results1 : {SessionRaised}, results2 : {SessionRaised}]

NextSessions ==
    \/ SeedCall
    \/ GenerateRandomIterate
    \/ GenerateRandomRaise
    \/ GenerateRandomReturn

SpecSessions == InitSessions /\ [][NextSessions]_vars

---------------------------------------------------------------------------
(* SequencePatternGenerator.generate_sequence and                          *)
(* SequencePatternLoader.select_pattern                                    *)

\* Largest count asked of generate_sequence.
MaxSeq == 4

\* Passes of the slot-budget loop the model follows in one call.
MaxPasses == MaxSeq + 2

\* SequencePattern(name, {steps, weight}): the steps in order and the weight.
Pattern(name, steps, weight) == [name |-> name, steps |-> steps, weight |-> weight]

AddStep == Step(<<"add">>, Absent, Absent, Absent, NoImmediates)

LoadStep ==
    Step(<<"addi", "lw">>, AllowedRegisters(<<0, 1>>, FALSE), BareRegister(0),
         NullRegister, AlignedIType)

MulStep == Step(<<"mul">>, Absent, Absent, Absent, NoImmediates)

\* The patterns of a loader, in the order of its dict: none; two patterns
\* of two and three steps; a pattern without steps beside one of two; a
\* pattern with a step the ISA does not know; a pattern of weight 0.
LoaderInputs ==
    { <<>>,
      << Pattern("load_use", <<LoadStep, AddStep>>, 1),
         Pattern("triple", <<AddStep, AddStep, AddStep>>, 2) >>,
      << Pattern("empty", <<>>, 1),
         Pattern("load_use", <<LoadStep, AddStep>>, 1) >>,
      << Pattern("unknown", <<AddStep, MulStep>>, 1) >>,
      << Pattern("unweighted", <<AddStep, LoadStep>>, 0) >> }

\* pattern_names: None, or a list of names.
NoNames == <<>>

PatternNameInputs == {NoNames, <<"load_use">>, <<"nosuch">>, <<"empty", "empty">>}

SeqDensityInputs == {-50, 30, 100}

\* self.pattern_loader.get_pattern(name): the patterns of that name (one or none).
GetPattern(patterns, name) ==
    SelectSeq(patterns, LAMBDA p : p.name = name)

\* available_patterns of generate_sequence: the loader's dict, or the dict
\* built from pattern_names, a name entering it once, at its first mention.
RECURSIVE AvailablePatternsOf(_, _, _)
AvailablePatternsOf(patterns, names, sofar) ==
    IF names = <<>> THEN sofar
    ELSE LET found == GetPattern(patterns, Head(names))
             known == \E i \in 1 .. Len(sofar) : sofar[i].name = Head(names)
         IN  AvailablePatternsOf(patterns, Tail(names),
                                 IF found = <<>> \/ known THEN sofar ELSE sofar \o found)

AvailablePatterns(patterns, names) ==
    IF names = NoNames THEN patterns ELSE AvailablePatternsOf(patterns, names, <<>>)

\* candidates of select_pattern: the patterns whose steps fit the slots.
Candidates(patterns, available_slots) ==
    SelectSeq(patterns, LAMBDA p : Len(p.steps) <= available_slots)

RECURSIVE SumWeights(_)
SumWeights(list) ==
    IF list = <<>> THEN 0 ELSE Head(list).weight + SumWeights(Tail(list))

\* The scan of select_pattern for a draw r = r2 / 2 of random.uniform(0,
\* total_weight): the first candidate whose running weight reaches r, or
\* candidates[0] when none does.
RECURSIVE ScanWeights(_, _, _, _)
ScanWeights(candidates, rest, r2, cumulative) ==
    IF rest = <<>> THEN candidates[1]
    ELSE IF r2 <= 2 * (cumulative + Head(rest).weight) THEN Head(rest)
    ELSE ScanWeights(candidates, Tail(rest), r2, cumulative + Head(rest).weight)

NonePattern == Pattern("None", <<>>, 0)

\* select_pattern(available_slots, patterns=patterns): the patterns it can
\* return; NonePattern when no pattern fits.
SelectPattern(available_slots, patterns) ==
    LET candidates   == Candidates(patterns, available_slots)
        total_weight == SumWeights(candidates)
    IN  IF candidates = <<>> THEN {NonePattern}
        ELSE IF total_weight <= 0 THEN Range(candidates)
        ELSE { ScanWeights(candidates, candidates, r2, 0) : r2 \in 0 .. (2 * total_weight) }

\* pattern.generate(isa, pattern_gen) returns one instruction per step,
\* unless a step raises.
StepRaises(step) == StepInstructions(step, EmptyDict) = {}

PatternRaises(pattern) == \E i \in 1 .. Len(pattern.steps) : StepRaises(pattern.steps[i])

PatternGenerate(pattern) == Emitted(pattern.name, Len(pattern.steps))

\* Whether a pass of the loop takes the pattern branch, for the value r of
\* random.random() (in hundredths).
TakesPattern(s, r) ==
    s.remaining >= 2 /\ r < s.density /\ s.available_patterns # <<>>

\* Entry of generate_sequence: the density is clipped, the patterns filtered.
GenerateSequenceEnter ==
    /\ seq.pc = "args"
    /\ seq' = [seq EXCEPT !.pc = "loop",
                          !.remaining = seq.count,
                          !.density = ClipDensity(seq.density),
                          !.available_patterns =
                                AvailablePatterns(seq.patterns, seq.pattern_names)]
    /\ UNCHANGED isaVars
    /\ UNCHANGED <<pat, sem, pg, loops, det>>
    /\ UNCHANGED tailVars

\* A pass that selects a pattern fitting the slots and generates it.
GenerateSequencePatternPass ==
    /\ seq.pc = "loop" /\ seq.remaining > 0 /\ seq.passes < MaxPasses
    /\ \E r \in RandomInputs :
          /\ TakesPattern(seq, r)
          /\ \E pattern \in SelectPattern(seq.remaining, seq.available_patterns) :
                /\ pattern # NonePattern
                /\ Len(pattern.steps) <= seq.remaining
                /\ ~PatternRaises(pattern)
                /\ LET sequence == PatternGenerate(pattern)
                   IN  seq' = [seq EXCEPT !.results = @ \o sequence,
                                          !.remaining = @ - Len(sequence),
                                          !.passes = @ + 1]
    /\ UNCHANGED isaVars
    /\ UNCHANGED <<pat, sem, pg, loops, det>>
    /\ UNCHANGED tailVars

\* A pass whose pattern has a step that raises: the call ends with the error.
GenerateSequencePatternRaise ==
    /\ seq.pc = "loop" /\ seq.remaining > 0 /\ seq.passes < MaxPasses
    /\ \E r \in RandomInputs :
          /\ TakesPattern(seq, r)
          /\ \E pattern \in SelectPattern(seq.remaining, seq.available_patterns) :
                /\ pattern # NonePattern
                /\ Len(pattern.steps) <= seq.remaining
                /\ PatternRaises(pattern)
    /\ seq' = [seq EXCEPT !.pc = "raised", !.passes = @ + 1]
    /\ UNCHANGED isaVars
    /\ UNCHANGED <<pat, sem, pg, loops, det>>
    /\ UNCHANGED tailVars

\* A pass that adds one random instruction: the pattern branch is not
\* taken, or no pattern fits.
GenerateSequenceRandomPass ==
    /\ seq.pc = "loop" /\ seq.remaining > 0 /\ seq.passes < MaxPasses
    /\ \E r \in RandomInputs :
          \/ ~TakesPattern(seq, r)
          \/ /\ TakesPattern(seq, r)
             /\ NonePattern \in SelectPattern(seq.remaining, seq.available_patterns)
    /\ seq' = [seq EXCEPT !.results = @ \o Emitted("random", 1),
                          !.remaining = @ - 1,
                          !.passes = @ + 1]
    /\ UNCHANGED isaVars
    /\ UNCHANGED <<pat, sem, pg, loops, det>>
    /\ UNCHANGED tailVars

\* return results[:count]
GenerateSequenceReturn ==
    /\ seq.pc = "loop" /\ seq.remaining <= 0
    /\ seq' = [seq EXCEPT !.pc = "done", !.ret = Prefix(seq.results, seq.count)]
    /\ UNCHANGED isaVars
    /\ UNCHANGED <<pat, sem, pg, loops, det>>
    /\ UNCHANGED tailVars

InitSequence ==
    /\ EncOff /\ IsaDefault /\ MixOff /\ PatOff /\ SemOff /\ LoopsOff /\ DetOff /\ TailOff
    /\ seq \in [pc : {"args"}, count : 0 .. MaxSeq, density : SeqDensityInputs,
                patterns : LoaderInputs, pattern_names : PatternNameInputs,
                available_patterns : {<<>>}, remaining : {0}, passes : {0},
                results : {<<>>}, ret : {<<>>}]

NextSequence ==
    \/ GenerateSequenceEnter
    \/ GenerateSequencePatternPass
    \/ GenerateSequencePatternRaise
    \/ GenerateSequenceRandomPass
    \/ GenerateSequenceReturn

SpecSequence == InitSequence /\ [][NextSequence]_vars

\* C20: every pass of the slot-budget loop of generate_sequence strictly
\* decreases the remaining slot count, whatever the number of steps of the
\* loaded patterns, and a call that returns returns exactly count
\* instructions.
Claim_C20_EveryPassDecreasesRemaining ==
    /\ [](seq.pc = "done" => Len(seq.ret) = seq.count)
    /\ [][(seq.pc = "loop" /\ seq'.pc = "loop") => seq'.remaining < seq.remaining]_vars

---------------------------------------------------------------------------
(* A RISCVISA built with register ranges: validation and sampling          *)

\* rd/rs1/rs2 (min, max) pairs given to RISCVISA(...).
RegRangeInputs == {<<0, 31>>, <<0, 0>>, <<1, 8>>, <<-1, 3>>, <<4, 2>>}

\* RISCVISA._validate_register_range(reg_type, min_val, max_val): TRUE when
\* it returns, FALSE when it raises.
ValidateRegisterRange(min_val, max_val) ==
    ~(min_val < 0 \/ max_val > 31) /\ ~(min_val > max_val)

\* Registers.random_range(min_reg, max_reg, exclude_zero): whether it raises,
\* and otherwise the registers it can return; the retry loop draws until the
\* register is not 0, so with no such register in the range it never returns.
RandomRange(min_reg, max_reg, exclude_zero) ==
    IF min_reg < 0 \/ max_reg > 31 \/ min_reg > max_reg
    THEN [kind |-> "error", values |-> {}]
    ELSE IF exclude_zero /\ min_reg = 0 /\ max_reg = 0
    THEN [kind |-> "error", values |-> {}]
    ELSE LET drawn == RandInt(min_reg, max_reg)
         IN  [kind |-> "reg",
              values |-> IF exclude_zero THEN drawn \ {0} ELSE drawn]

\* What a get_random_* call leaves in regs.ret.
RegisterReturned(op, exclude_zero, range, value) ==
    [op |-> op, kind |-> "reg", exclude_zero |-> exclude_zero, range |-> range,
     value |-> value]

RegisterRaised(op, exclude_zero, range) ==
    [op |-> op, kind |-> "error", exclude_zero |-> exclude_zero, range |-> range,
     value |-> NoneInt]

\* The outcomes of one get_random_* call on a range.
GetRandomRegister(op, range, exclude_zero) ==
    LET r == RandomRange(range[1], range[2], exclude_zero)
    IN  IF r.kind = "error" THEN {RegisterRaised(op, exclude_zero, range)}
        ELSE {RegisterReturned(op, exclude_zero, range, v) : v \in r.values}

\* RISCVISA(rd_min, rd_max, rs1_min, rs1_max, rs2_min, rs2_max): the three
\* ranges are validated and stored.
NewWithRanges ==
    /\ regs.pc = "new"
    /\ regs' = [regs EXCEPT !.pc =
                  IF /\ ValidateRegisterRange(regs.rd[1], regs.rd[2])
                     /\ ValidateRegisterRange(regs.rs1[1], regs.rs1[2])
                     /\ ValidateRegisterRange(regs.rs2[1], regs.rs2[2])
                  THEN "ready" ELSE "failed"]
    /\ UNCHANGED isaVars
    /\ UNCHANGED <<pat, sem, pg, loops, det, seq, stepc, blk, note>>

\* RISCVISA.get_random_rd(exclude_zero): one call on the constructed ISA.
GetRandomRd ==
    /\ regs.pc = "ready"
    /\ \E exclude_zero \in BOOLEAN :
          \E ret \in GetRandomRegister("get_random_rd", regs.rd, exclude_zero) :
             regs' = [regs EXCEPT !.pc = "called", !.ret = ret]
    /\ UNCHANGED isaVars
    /\ UNCHANGED <<pat, sem, pg, loops, det, seq, stepc, blk, note>>

\* RISCVISA.get_random_rs1(exclude_zero)
GetRandomRs1 ==
    /\ regs.pc = "ready"
    /\ \E exclude_zero \in BOOLEAN :
          \E ret \in GetRandomRegister("get_random_rs1", regs.rs1, exclude_zero) :
             regs' = [regs EXCEPT !.pc = "called", !.ret = ret]
    /\ UNCHANGED isaVars
    /\ UNCHANGED <<pat, sem, pg, loops, det, seq, stepc, blk, note>>

\* RISCVISA.get_random_rs2(exclude_zero)
GetRandomRs2 ==
    /\ regs.pc = "ready"
    /\ \E exclude_zero \in BOOLEAN :
          \E ret \in GetRandomRegister("get_random_rs2", regs.rs2, exclude_zero) :
             regs' = [regs EXCEPT !.pc = "called", !.ret = ret]
    /\ UNCHANGED isaVars
    /\ UNCHANGED <<pat, sem, pg, loops, det, seq, stepc, blk, note>>

\* An emitted instruction in regs.ret: who emitted it, its name and its word.
InstructionReturned(op, name, word) ==
    [op |-> op, kind |-> "instr", name |-> name, word |-> word]

\* RISCVISA.generate_random_instruction() on the configured ranges.
GenerateRandomInstructionCall ==
    /\ regs.pc = "ready"
    /\ \E d \in RandomInstructionChoices(weights), rng \in 0 .. (DrawGrain - 1) :
          LET cfg == Config(regs.rd, regs.rs1, regs.rs2, DefaultRanges)
              got == GenerateRandomInstruction(d, cfg, rng).value
          IN  regs' = [regs EXCEPT !.pc = "called", !.ret =
                         InstructionReturned("generate_random_instruction", d.name, got.word)]
    /\ UNCHANGED isaVars
    /\ UNCHANGED <<pat, sem, pg, loops, det, seq, stepc, blk, note>>

\* PatternGenerator(isa)._generate_single_random_instruction() on that ISA.
SingleRandomInstructionCall ==
    /\ regs.pc = "ready"
    /\ \E e \in SingleRandomInstructions(weights, DefaultRanges) :
          regs' = [regs EXCEPT !.pc = "called", !.ret =
                     InstructionReturned("_generate_single_random_instruction",
                                         e.name, WordOf(e))]
    /\ UNCHANGED isaVars
    /\ UNCHANGED <<pat, sem, pg, loops, det, seq, stepc, blk, note>>

NoRegisterCall == [op |-> "none", kind |-> "none"]

InitRanges ==
    /\ EncOff /\ IsaDefault /\ MixOff /\ PatOff /\ SemOff
    /\ LoopsOff /\ DetOff /\ SeqOff /\ StepOff /\ BlkOff /\ NoteOff
    /\ regs \in [pc : {"new"}, rd : RegRangeInputs, rs1 : RegRangeInputs,
                 rs2 : RegRangeInputs, ret : {NoRegisterCall}]

NextRanges ==
    \/ NewWithRanges
    \/ GetRandomRd
    \/ GetRandomRs1
    \/ GetRandomRs2
    \/ GenerateRandomInstructionCall
    \/ SingleRandomInstructionCall

SpecRanges == InitRanges /\ [][NextRanges]_vars

\* C21: on an ISA whose construction succeeded, no call of get_random_rd,
\* get_random_rs1 or get_random_rs2 with exclude_zero = True raises: a range
\* that is exactly [0, 0] is refused when the ranges are set up.
Claim_C21_ZeroRangeRefusedAtSetup ==
    (regs.pc = "called" /\ regs.ret.kind \in {"reg", "error"} /\ regs.ret.exclude_zero) =>
        regs.ret.kind = "reg"

\* The register fields a format has: rd for R, I, U, J; rs1 for R, I, S, B;
\* rs2 for R, S, B; none for ecall and ebreak.
InRegRange(x, range) == range[1] <= x /\ x <= range[2]

FieldsInRanges(name, word, rd, rs1, rs2) ==
    LET fmt == ByName(name).format
    IN  name \notin {"ecall", "ebreak"} =>
          /\ fmt \in {"R", "I", "U", "J"} => InRegRange(Field(word, 11, 7), rd)
          /\ fmt \in {"R", "I", "S", "B"} => InRegRange(Field(word, 19, 15), rs1)
          /\ fmt \in {"R", "S", "B"} => InRegRange(Field(word, 24, 20), rs2)

\* C22: every instruction emitted on an ISA built with register ranges, by
\* the ISA or by a PatternGenerator on it, has each register field its
\* format uses inside the configured range of that field.
Claim_C22_EmittedRegistersInRanges ==
    (regs.pc = "called" /\ regs.ret.kind = "instr") =>
        FieldsInRanges(regs.ret.name, regs.ret.word, regs.rd, regs.rs1, regs.rs2)

---------------------------------------------------------------------------
(* One call of SequenceStep.generate on a step and a context               *)

\* Steps whose register rules refer to other fields, to variables and to
\* exclude lists, beside the steps of StepInputs.
RuleStepInputs ==
    StepInputs \cup
    { Step(<<"sub">>, AllowedRegisters(<<1, 2>>, FALSE), SameAs("rd"), Absent, NoImmediates),
      Step(<<"add">>, FixedRegister(5), SameAs("rd"), SameAs("rs1"), NoImmediates),
      Step(<<"add">>, VariableRegister("v"), SameAs("rd"), BareRegister(3), NoImmediates),
      Step(<<"and">>, DifferentFrom(<<ExcludeInt(1), ExcludeVariable("v")>>, <<0, 1, 31>>),
           SameAs("rd"), Absent, NoImmediates),
      Step(<<"or">>, DifferentFrom(<<ExcludeInt(0), ExcludeInt(31)>>, <<0, 31>>),
           FixedRegister(4), Absent, NoImmediates),
      Step(<<"xor">>, DifferentFromAny(<<ExcludeInt(0)>>), Absent, Absent, NoImmediates),
      Step(<<"add">>, SameAs("rs1"), SameAs("rd"), Absent, NoImmediates),
      Step(<<"add", "mul">>, FixedRegister(1), Absent, Absent, NoImmediates) }

\* The names random.choice(self.instr_names) can return that the ISA does
\* not have: generate raises "Instruction not found".
UnknownNames(s) == {name \in Range(s.names) : name \notin Names}

\* SequenceStep.generate returns: the instruction is encoded from the
\* registers and the immediate the step resolved.
StepGenerateReturn ==
    /\ stepc.pc = "args"
    /\ \E e \in StepInstructions(stepc.step, stepc.variables) :
          stepc' = [stepc EXCEPT !.pc = "done", !.ret = e]
    /\ UNCHANGED isaVars
    /\ UNCHANGED <<pat, sem, pg, loops, det, seq, regs, blk, note>>

\* SequenceStep.generate raises: no instruction names, a name the ISA does
\* not have, or a same_as chain that comes back to its field.
StepGenerateRaise ==
    /\ stepc.pc = "args"
    /\ \/ stepc.step.names = <<>>
       \/ UnknownNames(stepc.step) # {}
       \/ /\ stepc.step.names # <<>>
          /\ \E f \in {"rd", "rs1", "rs2"} :
                ResolveRegister(stepc.step.reg_specs[f], stepc.step.reg_specs,
                                stepc.variables, MaxSameAs) = {}
    /\ stepc' = [stepc EXCEPT !.pc = "raised"]
    /\ UNCHANGED isaVars
    /\ UNCHANGED <<pat, sem, pg, loops, det, seq, regs, blk, note>>

InitStep ==
    /\ EncOff /\ IsaDefault /\ MixOff /\ PatOff /\ SemOff
    /\ LoopsOff /\ DetOff /\ SeqOff /\ RegsOff /\ BlkOff /\ NoteOff
    /\ stepc \in [pc : {"args"}, step : RuleStepInputs, variables : ContextInputs,
                  ret : {Emit(ByName("add"), 0, 0, 0, 0)}]

NextStep == StepGenerateReturn \/ StepGenerateRaise

SpecStep == InitStep /\ [][NextStep]_vars

\* The register a field of the returned instruction received.
Received(e, f) ==
    CASE f = "rd" -> e.rd [] f = "rs1" -> e.rs1 [] OTHER -> e.rs2

\* The fields of the step whose rule is 'same_as' a field the step specifies.
SameAsFields(s) ==
    {f \in {"rd", "rs1", "rs2"} :
        /\ s.reg_specs[f].type = "same_as"
        /\ s.reg_specs[f].field \in {"rd", "rs1", "rs2"}
        /\ s.reg_specs[s.reg_specs[f].field].type # "absent"}

\* C23: in the instruction a step returns, a field whose rule is 'same_as'
\* another field of the step holds the register that field received.
Claim_C23_SameAsReceivesSameRegister ==
    stepc.pc = "done" =>
        \A f \in SameAsFields(stepc.step) :
            Received(stepc.ret, f) = Received(stepc.ret, stepc.step.reg_specs[f].field)

\* The fields of the step whose rule names a variable the context does not bind.
UnboundFields(s, variables) ==
    {f \in {"rd", "rs1", "rs2"} :
        s.reg_specs[f].type = "variable" /\ s.reg_specs[f].name \notin DOMAIN variables}

\* C24: a step with a register rule on a variable the context does not bind
\* returns no instruction: the call fails.
Claim_C24_UnboundVariableFails ==
    stepc.pc = "done" => UnboundFields(stepc.step, stepc.variables) = {}

\* The registers a 'different_from' rule may choose from.
DifferentFromAllowed(reg_spec) ==
    Range(IF "allowed" \in reg_spec.has THEN reg_spec.allowed ELSE AllRegisters)

\* C28: in the instruction a step returns, a field whose rule is
\* 'different_from' holds an allowed register outside the exclude set; with
\* no such register the step returns no instruction.
Claim_C28_DifferentFromNeverExcluded ==
    stepc.pc = "done" =>
        \A f \in {"rd", "rs1", "rs2"} :
            stepc.step.reg_specs[f].type = "different_from" =>
                /\ Received(stepc.ret, f) \notin
                       Excluded(stepc.step.reg_specs[f].exclude, stepc.variables)
                /\ Received(stepc.ret, f) \in DifferentFromAllowed(stepc.step.reg_specs[f])

---------------------------------------------------------------------------
(* One call of PatternGenerator.generate_basic_block(size) under a weight  *)
(* table, followed by the names of the definitions it emits                *)

MaxBlock == 3

\* A table with weight w on the names of keep and 0 on every other name.
WeightOnly(keep, w) == [n \in Names |-> IF n \in keep THEN w ELSE 0]

\* The table after set_weight_by_name(n, 0) for every n of zeroed.
WeightZeroed(zeroed) == [n \in Names |-> IF n \in zeroed THEN 0 ELSE DefaultWeight]

\* The weight tables of the ISA the generator draws from; each has a
\* positive total.
BlockWeightTables ==
    { DefaultWeightTable,
      WeightZeroed({"beq", "jal"}),
      WeightOnly({"add", "jalr"}, 1),
      WeightOnly({"add", "beq"}, 1),
      WeightOnly({"beq", "jal"}, 2) }

BlockSizeInputs == 0 .. MaxBlock

IsBranchOrJumpFormat(name) == ByName(name).format \in {"B", "J"}

\* generate_basic_block(size) with size < 2: generate_random_sequence(size)
\* is returned, one weighted draw for each of its range(size) passes.
GenerateBasicBlockShort ==
    /\ blk.pc = "args" /\ blk.size < 2
    /\ IF blk.size <= 0
       THEN blk' = [blk EXCEPT !.pc = "done"]
       ELSE \E d \in RandomInstructionChoices(weights) :
               blk' = [blk EXCEPT !.pc = "done", !.out = <<d.name>>]
    /\ UNCHANGED isaVars
    /\ UNCHANGED <<pat, sem, pg, loops, det, seq, regs, stepc, note>>

\* generate_basic_block(size) with size >= 2: the list is empty and
\* size - 1 passes of the body loop are to come.
GenerateBasicBlockEnter ==
    /\ blk.pc = "args" /\ blk.size >= 2
    /\ blk' = [blk EXCEPT !.pc = "for", !.todo = blk.size - 1]
    /\ UNCHANGED isaVars
    /\ UNCHANGED <<pat, sem, pg, loops, det, seq, regs, stepc, note>>

\* The first draw of a pass: instr = self.isa.get_random_instruction().
BlockDraw ==
    /\ blk.pc = "for" /\ blk.todo > 0
    /\ \E d \in RandomInstructionChoices(weights) :
          blk' = [blk EXCEPT !.pc = "while", !.instr = d.name]
    /\ UNCHANGED isaVars
    /\ UNCHANGED <<pat, sem, pg, loops, det, seq, regs, stepc, note>>

\* "while instr.format in [B, J]": the condition holds, instr is drawn again.
BlockResample ==
    /\ blk.pc = "while" /\ IsBranchOrJumpFormat(blk.instr)
    /\ \E d \in RandomInstructionChoices(weights) :
          blk' = [blk EXCEPT !.instr = d.name]
    /\ UNCHANGED isaVars
    /\ UNCHANGED <<pat, sem, pg, loops, det, seq, regs, stepc, note>>

\* The condition of the while fails: the instruction is generated from
\* instr and appended.
BlockAppend ==
    /\ blk.pc = "while" /\ ~IsBranchOrJumpFormat(blk.instr)
    /\ blk' = [blk EXCEPT !.pc = "for", !.todo = @ - 1,
                          !.out = Append(@, blk.instr)]
    /\ UNCHANGED isaVars
    /\ UNCHANGED <<pat, sem, pg, loops, det, seq, regs, stepc, note>>

\* The definitions the last instruction can be generated from: when
\* random.random() > 0.5, random.choice(branch_instrs) or
\* random.choice(jump_instrs); otherwise (and when both lists are empty) the
\* weighted draw of _generate_single_random_instruction().
BlockClosingChoices(table) ==
    LET branch_instrs == GetInstructionsByFormat("B")
        jump_instrs   == GetInstructionsByFormat("J")
        chosen == IF branch_instrs # <<>> \/ jump_instrs # <<>>
                  THEN (IF branch_instrs # <<>> THEN Range(branch_instrs) ELSE {})
                       \cup (IF jump_instrs # <<>> THEN Range(jump_instrs) ELSE {})
                  ELSE RandomInstructionChoices(table)
    IN chosen \cup RandomInstructionChoices(table)

\* After the body loop: the last instruction is appended and the list
\* returned.
BlockClose ==
    /\ blk.pc = "for" /\ blk.todo = 0
    /\ \E d \in BlockClosingChoices(weights) :
          blk' = [blk EXCEPT !.pc = "done", !.out = Append(@, d.name)]
    /\ UNCHANGED isaVars
    /\ UNCHANGED <<pat, sem, pg, loops, det, seq, regs, stepc, note>>

InitBlock ==
    /\ EncOff /\ MixOff /\ PatOff /\ SemOff
    /\ LoopsOff /\ DetOff /\ SeqOff /\ RegsOff /\ StepOff /\ NoteOff
    /\ weights \in BlockWeightTables
    /\ isa_pc = "ready" /\ isa_ret = NoRet /\ nops = 0
    /\ blk \in [pc : {"args"}, size : BlockSizeInputs, todo : {0},
                instr : {"none"}, out : {<< >>}]

NextBlock ==
    \/ GenerateBasicBlockShort
    \/ GenerateBasicBlockEnter
    \/ BlockDraw
    \/ BlockResample
    \/ BlockAppend
    \/ BlockClose

SpecBlock == InitBlock /\ [][NextBlock]_vars

\* C25: generate_basic_block(n) with n >= 2 returns exactly n instructions,
\* and none of the first n - 1 is a branch (format B) or a jump (jal, jalr).
Claim_C25_BodyHasNoBranchOrJump ==
    (blk.pc = "done" /\ blk.size >= 2) =>
        /\ Len(blk.out) = blk.size
        /\ \A i \in 1 .. (blk.size - 1) :
              /\ ByName(blk.out[i]).format # "B"
              /\ blk.out[i] \notin {"jal", "jalr"}

\* C27: generate_basic_block terminates under every weight table with a
\* positive total: whenever the re-sampling loop is entered, a definition
\* that ends it (format neither B nor J) has positive weight.
Claim_C27_ResamplingLoopEnds ==
    (blk.pc = "while" /\ ChoicesTotal(WeightsOf(CatalogNames, weights)) > 0) =>
        \E n \in Names : weights[n] > 0 /\ ~IsBranchOrJumpFormat(n)

\* C30: a definition whose weight is 0 is never emitted by the builder:
\* every instruction of the returned block has positive weight.
Claim_C30_ZeroWeightNeverEmitted ==
    blk.pc = "done" =>
        \A i \in 1 .. Len(blk.out) : weights[blk.out[i]] > 0

---------------------------------------------------------------------------
(* Nested loops of SemanticState, followed with the counter registers of   *)
(* the enter_loop calls that no exit_loop has matched yet                  *)

\* counter_reg of the nested enter_loop calls.
NestedCounterInputs == {NoneInt, 5, 7}

\* The last element of a non-empty list.
Last(list) == list[Len(list)]

\* The list without its last element.
Front(list) == SubSeq(list, 1, Len(list) - 1)

\* enter_loop(counter_reg): the call is the most recent unmatched one.
NestedEnterLoop ==
    /\ loops.pc = "tracked"
    /\ sem.loop_nesting < MaxNesting
    /\ \E counter_reg \in NestedCounterInputs :
          /\ sem' = EnterLoop(sem, counter_reg)
          /\ loops' = [loops EXCEPT !.open = Append(@, counter_reg)]
    /\ UNCHANGED isaVars
    /\ UNCHANGED <<pat, pg, det, seq>>
    /\ UNCHANGED tailVars

\* exit_loop(): it matches the most recent unmatched enter_loop, when there
\* is one.
NestedExitLoop ==
    /\ loops.pc = "tracked"
    /\ sem' = ExitLoop(sem)
    /\ loops' = [loops EXCEPT !.open = IF @ = << >> THEN @ ELSE Front(@)]
    /\ UNCHANGED isaVars
    /\ UNCHANGED <<pat, pg, det, seq>>
    /\ UNCHANGED tailVars

InitNested ==
    /\ EncOff /\ IsaDefault /\ MixOff /\ PatOff /\ DetOff /\ SeqOff /\ TailOff
    /\ pg = [pc |-> "off"]
    /\ sem = FreshSemanticState
    /\ loops = [pc |-> "tracked", open |-> << >>]

NextNested == NestedEnterLoop \/ NestedExitLoop

SpecNested == InitNested /\ [][NextNested]_vars

\* C26: whenever loop_nesting > 0, current_loop_counter_reg is the counter
\* register of the most recent enter_loop that no exit_loop has matched.
Claim_C26_CounterOfInnermostOpenLoop ==
    (loops.pc = "tracked" /\ sem.loop_nesting > 0) =>
        /\ Len(loops.open) = sem.loop_nesting
        /\ sem.current_loop_counter_reg = Last(loops.open)

---------------------------------------------------------------------------
(* Comments of a PatternGenerator with a SemanticState and detail level    *)
(* "detailed": what CommentGenerator.generate reads for each instruction   *)

\* SemanticState.get_last_writer(reg): the index, NoneInt for None.
GetLastWriter(s, reg) ==
    IF reg \in DOMAIN s.register_writers THEN s.register_writers[reg] ELSE NoneInt

\* SemanticState.get_readers(reg)
GetReaders(s, reg) ==
    IF reg \in DOMAIN s.register_readers THEN s.register_readers[reg] ELSE << >>

\* SemanticState.get_memory_access_pattern(base_reg)
GetMemoryAccessPattern(s, base_reg) ==
    IF base_reg \in DOMAIN s.memory_accesses THEN s.memory_accesses[base_reg] ELSE << >>

\* CommentGenerator.generate(instr, rd, rs1, rs2, imm, instr_idx) at level
\* "detailed", outside loops and functions: the values its text prints
\* (NoneInt where the part is absent).
CommentGenerate(s, e, instr_idx) ==
    [last_writer |-> IF e.rd # 0 THEN GetLastWriter(s, e.rd) ELSE NoneInt,
     rs1_reads   |-> IF e.rs1 # 0 THEN Len(GetReaders(s, e.rs1)) ELSE NoneInt,
     rs2_reads   |-> IF e.rs2 # 0 THEN Len(GetReaders(s, e.rs2)) ELSE NoneInt,
     accesses    |-> IF e.name \in MemoryNames
                     THEN Len(GetMemoryAccessPattern(s, e.rs1)) ELSE NoneInt,
     target      |-> IF FormatOf(e) \in {"B", "J"}
                     THEN instr_idx * 4 + e.imm ELSE NoneInt]

\* The weight table of the commented generator's ISA.
CommentWeightTable == WeightOnly({"add", "lw", "beq", "jal"}, 1)

\* The comment of an emitted instruction, with what it should be measured
\* against: the state before the instruction and the index it was recorded
\* under.
Noted(path, e, comment, before, recorded_at) ==
    [pc |-> "commented", path |-> path, instr |-> e, comment |-> comment,
     before |-> before, recorded_at |-> recorded_at]

\* _generate_single_random_instruction(): _record_instruction runs, then
\* _generate_comment with comment_idx = self.instr_idx.
CommentSingleRandomInstruction ==
    /\ note.pc # "off" /\ pg.instr_idx + 1 <= MaxInstr
    /\ \E e \in SingleRandomInstructions(weights, DefaultRanges) :
          LET recorded == RecordInstruction(sem, pg.instr_idx, Recorded(e))
              idx      == pg.instr_idx + 1
          IN /\ sem'  = recorded
             /\ pg'   = [pg EXCEPT !.instr_idx = idx, !.returned = @ + 1]
             /\ note' = Noted("random", e, CommentGenerate(recorded, e, idx),
                              sem, pg.instr_idx)
    /\ UNCHANGED isaVars
    /\ UNCHANGED <<pat, loops, det, seq, regs, stepc, blk>>

\* generate_load_store_pair(): each of the two instructions is recorded and
\* then commented; note keeps the store's comment.
CommentLoadStorePair ==
    /\ note.pc # "off" /\ pg.instr_idx + 2 <= MaxInstr
    /\ \E p \in LoadStorePairs(weights, DefaultRanges) :
          LET loaded == RecordInstruction(sem, pg.instr_idx, Recorded(p[1]))
              stored == RecordInstruction(loaded, pg.instr_idx + 1, Recorded(p[2]))
              idx    == pg.instr_idx + 2
          IN /\ sem'  = stored
             /\ pg'   = [pg EXCEPT !.instr_idx = idx, !.returned = @ + 2]
             /\ note' = Noted("load_store", p[2], CommentGenerate(stored, p[2], idx),
                              loaded, pg.instr_idx + 1)
    /\ UNCHANGED isaVars
    /\ UNCHANGED <<pat, loops, det, seq, regs, stepc, blk>>

\* SequenceStep.generate(isa, pattern_gen, context): _generate_comment runs,
\* then _record_instruction.
CommentStepGenerate ==
    /\ note.pc # "off" /\ pg.instr_idx + 1 <= MaxInstr
    /\ \E step \in StepInputs, variables \in ContextInputs :
          \E e \in StepInstructions(step, variables) :
             /\ note' = Noted("step", e, CommentGenerate(sem, e, pg.instr_idx),
                              sem, pg.instr_idx)
             /\ sem'  = RecordInstruction(sem, pg.instr_idx, Recorded(e))
             /\ pg'   = [pg EXCEPT !.instr_idx = @ + 1, !.returned = @ + 1]
    /\ UNCHANGED isaVars
    /\ UNCHANGED <<pat, loops, det, seq, regs, stepc, blk>>

InitComment ==
    /\ EncOff /\ MixOff /\ PatOff
    /\ LoopsOff /\ DetOff /\ SeqOff /\ RegsOff /\ StepOff /\ BlkOff
    /\ weights = CommentWeightTable
    /\ isa_pc = "ready" /\ isa_ret = NoRet /\ nops = 0
    /\ sem = FreshSemanticState
    /\ pg = [attached |-> TRUE, instr_idx |-> 0, returned |-> 0,
             pc |-> "idle", todo |-> 0, out |-> 0]
    /\ note = [pc |-> "none"]

NextComment ==
    \/ CommentSingleRandomInstruction
    \/ CommentLoadStorePair
    \/ CommentStepGenerate

SpecComment == InitComment /\ [][NextComment]_vars

\* C29: on every path the comment of an instruction is computed from the
\* state before the instruction is recorded, and the index handed to the
\* comment generator is the index the instruction is recorded under.
Claim_C29_CommentFromStateBefore ==
    note.pc = "commented" =>
        note.comment = CommentGenerate(note.before, note.instr, note.recorded_at)

===========================================================================
